---- MODULE Spec2Model ----
(***************************************************************************)
(* Model of the CoinFantasy Hedera gateway SDK core:                       *)
(*   - APIClient (src/src/client.ts): bounded exponential-backoff retry    *)
(*   - WalletManager and its adapters (wallet.ts, wallet/*.ts)             *)
(*   - RateLimiter (security utilities)                                    *)
(* Each subsystem has its own specification (SpecHttp, SpecWallet,         *)
(* SpecRate); the variables of the other subsystems stay at their initial  *)
(* values.                                                                 *)
(***************************************************************************)
EXTENDS Integers, Sequences, FiniteSets, TLC

VARIABLES
    retryOptions,   \* APIClient.retryOptions after the constructor's merge
    req,            \* one record per request issued through get/post/put/delete
    env,            \* process.env: NODE_ENV and SDK_DEBUG
    logs,           \* number of console.log lines the API client has written
    limiter,        \* RateLimiter: maxRequests, windowMs (constructor arguments)
    requests,       \* RateLimiter.requests: timestamps of the grants kept
    now,            \* Date.now()
    acq,            \* one record per acquire() caller
    grants,         \* timestamps of the grants made in the trailing window of now
    resets,         \* number of reset() calls made
    sinceReset,     \* the acquire() executions that followed the last reset()
    seq,            \* what a caller making sequential acquire() calls observed
    hasWindow,      \* typeof window !== 'undefined' (browser context)
    hashpack,       \* the injected global window.hashpack
    slot,           \* localStorage item 'hedera_wallet_connection'
    adapter,        \* WalletManager.adapter: which adapter is attached
    wcProvider,     \* WalletConnectAdapter.provider is set
    connectionInfo, \* WalletManager.connectionInfo
    calls,          \* the WalletManager call in flight or last made, per operation
    flow,           \* how far the manager is through connect, disconnect, connect
    peer,           \* connectionInfo of a second WalletManager of the same page
    afterDisconnect,\* what followed the last completed disconnect()
    wait,           \* a HashConnectAdapter.waitForHashPack() call and its clock
    hts,            \* the HTSManager calls made so far, in call order
    hcs,            \* the HCSManager.publishEvent calls made so far, in call order
    redact,         \* the redactSensitiveData call last made
    sanitized,      \* the sanitizeEventData call last made
    validated,      \* the string last passed to the four id validators
    sdk,            \* the CoinFantasyHederaSDK calls made so far, in call order
    opWait          \* a CoinFantasyHederaSDK.waitForOperation() call and its clock

httpVars == <<retryOptions, req, env, logs>>

rateVars == <<limiter, requests, now, acq, grants, resets, sinceReset, seq>>

walletVars ==
    <<hasWindow, hashpack, slot, adapter, wcProvider, connectionInfo, calls, flow,
      peer, afterDisconnect, wait>>

\* the calls made on the domain managers
utilVars == <<redact, sanitized, validated>>
mgrVars == <<hts, hcs, sdk, opWait, redact, sanitized, validated>>

vars ==
    <<retryOptions, req, env, logs, hts, hcs, sdk, opWait, redact, sanitized, validated, limiter, requests, now, acq, grants, resets,
      sinceReset, seq,
      hasWindow, hashpack, slot, adapter, wcProvider, connectionInfo, calls, flow,
      peer, afterDisconnect, wait>>

(***************************************************************************)
(* JavaScript values                                                       *)
(***************************************************************************)

\* `undefined` where a number is expected (an option set to undefined, or a
\* request config that has no __retryCount yet)
UndefNum == -1

\* a ?? d
Nullish(a, d) == IF a = UndefNum THEN d ELSE a

\* a || d on numbers: 0 and undefined are falsy
OrElse(a, d) == IF a = UndefNum \/ a = 0 THEN d ELSE a

RECURSIVE Pow(_, _)
\* Math.pow on non-negative integers
Pow(b, e) == IF e <= 0 THEN 1 ELSE b * Pow(b, e - 1)

\* Math.min
Min(a, b) == IF a <= b THEN a ELSE b

(***************************************************************************)
(* APIClient: retry options                                                *)
(***************************************************************************)

DefaultMaxRetries == 3
DefaultBaseDelay == 1000
DefaultMaxDelay == 30000
DefaultExponentialBase == 2

OptionFields == {"maxRetries", "baseDelay", "maxDelay", "exponentialBase"}

\* the literal the constructor spreads config.retryOptions over
DefaultRetryOptions ==
    [maxRetries |-> DefaultMaxRetries, baseDelay |-> DefaultBaseDelay,
     maxDelay |-> DefaultMaxDelay, exponentialBase |-> DefaultExponentialBase]

\* largest maxRetries a caller configures in the model
MaxUserRetries == 2

\* config.retryOptions as the set of <<key, value>> pairs the caller supplies;
\* {} is an absent or empty retryOptions
UserRetryOptions ==
    {{}}
    \cup {{<<"maxRetries", m>>} : m \in 0..MaxUserRetries}
    \cup {{<<"maxRetries", UndefNum>>},
          {<<"maxRetries", 3>>, <<"baseDelay", 1000>>},
          {<<"maxRetries", 2>>, <<"baseDelay", 20000>>},
          {<<"maxRetries", 2>>, <<"baseDelay", 500>>, <<"exponentialBase", 3>>,
           <<"maxDelay", 1000>>}}

\* { maxRetries: 3, baseDelay: 1000, maxDelay: 30000, exponentialBase: 2,
\*   ...config.retryOptions }
MergeRetryOptions(user) ==
    [f \in OptionFields |->
        IF \E p \in user : p[1] = f
        THEN (CHOOSE p \in user : p[1] = f)[2]
        ELSE DefaultRetryOptions[f]]

(***************************************************************************)
(* APIClient: transport outcomes and errors                                *)
(***************************************************************************)

\* number of requests issued through the client
NumReq == 2

\* calls of the SDK facade on record in one run
MaxSdkCalls == 3

Reqs == 1..NumReq

\* response.data of a 2xx response: JSON null; the body the axios mock of the
\* tests answers every get with, { id: 'mock-op', status: 'COMPLETED' }, which
\* has none of the properties the managers and the facade read from a body;
\* and a body of the gateway, which has them
NullBody == "null"
MockBody == "mock-op"
GatewayBody == "gateway"

Payloads == {NullBody, MockBody, GatewayBody}

\* response.<property> on the body a get/post call resolved with: a TypeError
\* when the body is null
PropertyReadThrows(body) == body = NullBody

\* the body has the property the method reads (health, operation, token, ...)
HasProperty(body) == body = GatewayBody

\* OperationStatus.status
OperationStates == {"PENDING", "IN_PROGRESS", "COMPLETED", "FAILED", "RETRYING"}

\* the bodies that answer a status request: { operation: { status } },
\* written as the status, and the two bodies that carry no operation
StatusBodies == OperationStates \cup {MockBody, NullBody}

\* what one transport attempt can end in: a 2xx response carrying data, a
\* non-2xx response, or no response at all (network failure, timeout)
SuccessOutcomes ==
    {[hasResponse |-> TRUE, status |-> 200, code |-> "", data |-> d] : d \in Payloads}

FailureOutcomes ==
    {[hasResponse |-> TRUE, status |-> s,
      code |-> IF s >= 500 THEN "ERR_BAD_RESPONSE" ELSE "ERR_BAD_REQUEST",
      data |-> ""] : s \in {400, 404, 429, 500, 503}}
    \cup {[hasResponse |-> FALSE, status |-> 0, code |-> c, data |-> ""] :
            c \in {"ERR_NETWORK", "ECONNABORTED"}}

\* a 2xx response to GET /hedera/operations/{id}
StatusOutcome(body) == [hasResponse |-> TRUE, status |-> 200, code |-> "", data |-> body]

TransportOutcomes ==
    SuccessOutcomes \cup FailureOutcomes \cup {StatusOutcome(b) : b \in StatusBodies}

NoOutcome == [hasResponse |-> FALSE, status |-> 0, code |-> "none", data |-> ""]

\* the AxiosError the transport rejects with for a failed attempt; config is the
\* request's own config object, attempt is the serial number of the attempt
AxiosErrorOf(o, r, n) ==
    [isAxiosError |-> TRUE, config |-> r, hasResponse |-> o.hasResponse,
     status |-> o.status, code |-> o.code, attempt |-> n]

NoError ==
    [isAxiosError |-> FALSE, config |-> 0, hasResponse |-> FALSE,
     status |-> 0, code |-> "none", attempt |-> 0]

NoResult == [data |-> "", attempt |-> 0]

\* shouldRetry with `>` written for `>=`
ShouldRetryOffByOne(error, retryCount) ==
    /\ error.isAxiosError
    /\ error.config # 0
    /\ ~(Nullish(retryCount, 0) > Nullish(retryOptions.maxRetries, 0))
    /\ \/ ~error.hasResponse
       \/ error.code = "ECONNABORTED"
       \/ (error.status >= 500 /\ error.status < 600)
       \/ error.status = 429

\* shouldRetry that also retries every 4xx response
ShouldRetryAny4xx(error, retryCount) ==
    /\ error.isAxiosError
    /\ error.config # 0
    /\ ~(Nullish(retryCount, 0) >= Nullish(retryOptions.maxRetries, 0))
    /\ \/ ~error.hasResponse
       \/ error.code = "ECONNABORTED"
       \/ (error.status >= 400 /\ error.status < 600)

\* APIClient.shouldRetry(error); retryCount is error.config.__retryCount
ShouldRetry(error, retryCount) ==
    /\ error.isAxiosError
    /\ error.config # 0
    /\ ~(Nullish(retryCount, 0) >= Nullish(retryOptions.maxRetries, 0))
    /\ \/ ~error.hasResponse
       \/ error.code = "ECONNABORTED"
       \/ (error.status >= 500 /\ error.status < 600)
       \/ error.status = 429

\* the delay without the Math.min against maxDelay
RetryDelayUncapped(retryCount) ==
    Nullish(retryOptions.baseDelay, 1000)
        * Pow(Nullish(retryOptions.exponentialBase, 2), OrElse(retryCount, 1) - 1)

\* the delay with the exponent taken from the new count instead of count - 1
RetryDelayExponentOff(retryCount) ==
    Min(Nullish(retryOptions.baseDelay, 1000)
            * Pow(Nullish(retryOptions.exponentialBase, 2), OrElse(retryCount, 1)),
        Nullish(retryOptions.maxDelay, 30000))

\* the delay retryRequest computes; retryCount is the incremented __retryCount
RetryDelay(retryCount) ==
    Min(Nullish(retryOptions.baseDelay, 1000)
            * Pow(Nullish(retryOptions.exponentialBase, 2), OrElse(retryCount, 1) - 1),
        Nullish(retryOptions.maxDelay, 30000))

(***************************************************************************)
(* APIClient: one request                                                  *)
(*   pc          idle | inflight | sleeping | resolved | rejected          *)
(*   retryCount  config.__retryCount (UndefNum until the first retry)      *)
(*   attempts    transport attempts started                                *)
(*   fails       failed attempts delivered                                 *)
(*   delays      the backoff delays slept, in order                        *)
(*   last        outcome of the latest attempt that ended                  *)
(*   all503      every failed attempt so far answered 503                  *)
(*   result      what the caller's promise resolved with                   *)
(*   error       what the caller's promise rejected with                   *)
(***************************************************************************)

IdleRequest ==
    [pc |-> "idle", retryCount |-> UndefNum, attempts |-> 0, fails |-> 0,
     delays |-> <<>>, last |-> NoOutcome, all503 |-> TRUE, result |-> NoResult,
     error |-> NoError]

\* an environment variable that is not set
Unset == "#unset"

\* process.env as the client reads it
Envs ==
    [NODE_ENV : {"development", "production", Unset}, SDK_DEBUG : {"true", "1", Unset}]

\* a production deployment with no debugging switched on
ProductionEnv == [NODE_ENV |-> "production", SDK_DEBUG |-> Unset]

\* the logging test that lets everything through outside production
ShouldLogUnlessProduction(e) == e.NODE_ENV # "production"

\* process.env.NODE_ENV === 'development' || process.env.SDK_DEBUG === 'true'
ShouldLog(e) == e.NODE_ENV = "development" \/ e.SDK_DEBUG = "true"

\* console.log guarded by the logging test
LogLine == logs' = IF ShouldLog(env) THEN logs + 1 ELSE logs

\* new APIClient(config)
InitHttp ==
    /\ \E user \in UserRetryOptions : retryOptions = MergeRetryOptions(user)
    /\ req = [r \in Reqs |-> IdleRequest]
    /\ env = ProductionEnv
    /\ logs = 0

\* this.client.<method>(url, ...): the request interceptor logs the request
\* line and the first attempt starts
IssueBody(r) ==
    /\ req[r].pc = "idle"
    /\ req' = [req EXCEPT ![r].pc = "inflight", ![r].attempts = 1]
    /\ LogLine

\* get/post/put/delete called directly
Issue(r) ==
    /\ IssueBody(r)
    /\ UNCHANGED <<retryOptions, env, rateVars, walletVars, mgrVars>>

\* the attempt in flight ends with a 2xx response: the response interceptor
\* passes it through and the caller gets response.data
ResolveBody(r, o) ==
    /\ req[r].pc = "inflight"
    /\ req' = [req EXCEPT ![r].pc = "resolved",
                          ![r].last = o,
                          ![r].result = [data |-> o.data, attempt |-> req[r].attempts]]

\* a 2xx response to a request whose caller is not modelled further
RespondSuccess(r, o) ==
    /\ o \in SuccessOutcomes
    /\ ResolveBody(r, o)
    /\ UNCHANGED <<retryOptions, env, logs, rateVars, walletVars, mgrVars>>

\* a retry counter kept once for the client: the furthest any request has got
RetryCountShared(r) ==
    LET counts == {req[q].retryCount : q \in Reqs}
    IN  CHOOSE c \in counts : \A d \in counts : d <= c

\* config.__retryCount of the failed request: error.config is the config object
\* axios built for this one call
RetryCountOf(r) == req[r].retryCount

\* the attempt in flight fails: the response interceptor's error handler runs
\* shouldRetry and either starts retryRequest (count + 1, sleep the delay) or
\* rejects with the error
FailBody(r, o) ==
    /\ req[r].pc = "inflight"
    /\ o \in FailureOutcomes
    /\ LET error == AxiosErrorOf(o, r, req[r].attempts)
           count == OrElse(RetryCountOf(r), 0) + 1
       IN  IF ShouldRetry(error, RetryCountOf(r))
           THEN /\ req' = [req EXCEPT ![r].pc = "sleeping",
                                      ![r].last = o,
                                      ![r].fails = @ + 1,
                                      ![r].all503 = @ /\ o.status = 503,
                                      ![r].retryCount = count,
                                      ![r].delays = Append(@, RetryDelay(count))]
                /\ LogLine
           ELSE /\ req' = [req EXCEPT ![r].pc = "rejected",
                                      ![r].last = o,
                                      ![r].fails = @ + 1,
                                      ![r].all503 = @ /\ o.status = 503,
                                      ![r].error = error]
                /\ UNCHANGED logs

\* a failed attempt of a request whose caller is not modelled further
RespondFailure(r, o) ==
    /\ FailBody(r, o)
    /\ UNCHANGED <<retryOptions, env, rateVars, walletVars, mgrVars>>

\* the backoff timer of retryRequest fires: this.client(config) starts the next
\* attempt with the same config, through the request interceptor again
RetryTimerFires(r) ==
    /\ req[r].pc = "sleeping"
    /\ req' = [req EXCEPT ![r].pc = "inflight", ![r].attempts = @ + 1]
    /\ LogLine
    /\ UNCHANGED <<retryOptions, env, rateVars, walletVars, mgrVars>>

NextHttp ==
    \/ \E r \in Reqs : Issue(r)
    \/ \E r \in Reqs : \E o \in SuccessOutcomes : RespondSuccess(r, o)
    \/ \E r \in Reqs : \E o \in FailureOutcomes : RespondFailure(r, o)
    \/ \E r \in Reqs : RetryTimerFires(r)


(***************************************************************************)
(* Strings, connection records and the persisted JSON text                 *)
(* A string is the tuple of its symbols; words that are never taken apart  *)
(* ("hedera", "testnet", ...) are single symbols.                          *)
(***************************************************************************)

\* `undefined` where a string is expected
Undefined == <<"#undefined">>

Digits == {"0", "1", "2", "3", "4", "5", "6", "7", "8", "9"}

Acc123 == <<"0", ".", "0", ".", "1", "2", "3">>
Acc456 == <<"0", ".", "0", ".", "4", "5", "6">>
BadAcc == <<"0", ".", "0", ".", "x">>

\* the pattern without its end anchor: /^0\.0\.\d+/.test(s)
MatchesIdPrefix(s) ==
    /\ Len(s) >= 5
    /\ s[1] = "0" /\ s[2] = "." /\ s[3] = "0" /\ s[4] = "."
    /\ s[5] \in Digits

\* /^0\.0\.\d+$/.test(s)
MatchesIdPattern(s) ==
    /\ Len(s) >= 5
    /\ s[1] = "0" /\ s[2] = "." /\ s[3] = "0" /\ s[4] = "."
    /\ \A i \in 5..Len(s) : s[i] \in Digits

\* isValidAccountId(accountId)
IsValidAccountId(s) ==
    /\ s # Undefined
    /\ s # <<>>
    /\ MatchesIdPattern(s)

\* isValidNetwork(network)
IsValidNetwork(s) == s = <<"testnet">> \/ s = <<"mainnet">>

\* a || d on strings: undefined and '' are falsy
OrStr(a, d) == IF a = Undefined \/ a = <<>> THEN d ELSE a

RECURSIVE SplitFrom(_, _, _, _)
SplitFrom(s, sep, i, cur) ==
    IF i > Len(s) THEN <<cur>>
    ELSE IF s[i] = sep THEN <<cur>> \o SplitFrom(s, sep, i + 1, <<>>)
    ELSE SplitFrom(s, sep, i + 1, Append(cur, s[i]))

\* s.split(sep)
Split(s, sep) == SplitFrom(s, sep, 1, <<>>)

\* parts[n], n counted from 0
At(parts, n) == IF n + 1 <= Len(parts) THEN parts[n + 1] ELSE Undefined

\* connectionInfo = null
NullInfo == [isNull |-> TRUE]

\* a WalletConnectionInfo object
Info(accountId, network, publicKey) ==
    [accountId |-> accountId, network |-> network, publicKey |-> publicKey]

\* localStorage.getItem returns null: nothing is stored
NoItem == [kind |-> "none", pairs |-> <<>>]

\* JSON.stringify(info): the properties that are not undefined, in order
Stringify(info) ==
    [kind |-> "object",
     pairs |-> SelectSeq(<<<<"accountId", info.accountId>>,
                           <<"network", info.network>>,
                           <<"publicKey", info.publicKey>>>>,
                         LAMBDA p : p[2] # Undefined)]

\* the value of property key in a parsed object
Property(pairs, key) ==
    IF \E i \in DOMAIN pairs : pairs[i][1] = key
    THEN pairs[CHOOSE i \in DOMAIN pairs :
                  pairs[i][1] = key /\ \A j \in DOMAIN pairs : pairs[j][1] = key => j <= i][2]
    ELSE Undefined

\* JSON.parse(text) throws
ParseThrows(text) == text.kind = "invalid"

\* JSON.parse(text) when it does not throw
Parse(text) ==
    IF text.kind = "null" THEN NullInfo
    ELSE Info(Property(text.pairs, "accountId"), Property(text.pairs, "network"),
              Property(text.pairs, "publicKey"))

\* if (stored): null and '' are falsy
Truthy(text) == text.kind \notin {"none", "empty"}

\* what other code, another tab or an earlier session can leave in the slot:
\* a record, a syntactically invalid blob, the empty string, 'null'
ExternalTexts ==
    {Stringify(Info(Acc123, <<"testnet">>, <<"pk">>)),
     Stringify(Info(BadAcc, <<"previewnet">>, Undefined)),
     [kind |-> "invalid", pairs |-> <<>>],
     [kind |-> "empty", pairs |-> <<>>],
     [kind |-> "null", pairs |-> <<>>]}

(***************************************************************************)
(* Wallet providers                                                        *)
(***************************************************************************)

\* window.hashpack is not injected
NoHashPack == [present |-> FALSE, methods |-> <<>>]

\* the objects an extension injects, by their callable own properties in key
\* order: the usual API, and an object that exposes no function
HashPackObjects ==
    {[present |-> TRUE, methods |-> <<"connectToLocalWallet", "disconnect", "requestTransaction">>],
     [present |-> TRUE, methods |-> <<>>]}

\* what the provider's connect method resolves with
HashPackResults ==
    {[accountIds |-> <<Acc123>>, network |-> <<"testnet">>, publicKey |-> <<"pk">>],
     [accountIds |-> <<Acc456, Acc123>>, network |-> Undefined, publicKey |-> Undefined],
     [accountIds |-> <<>>, network |-> <<"testnet">>, publicKey |-> Undefined],
     [accountIds |-> <<BadAcc>>, network |-> <<"previewnet">>, publicKey |-> Undefined]}

\* the account strings of session.namespaces.hedera.accounts
WcAccountStrings ==
    {<<"hedera", ":", "mainnet", ":">> \o Acc456,
     <<"hedera", ":", "previewnet", ":">> \o Acc456,
     <<"hedera", ":", "testnet">>}

\* the sessions provider.connect resolves with
WcSessions ==
    {[hedera |-> TRUE, accounts |-> <<a>>] : a \in WcAccountStrings}
    \cup {[hedera |-> TRUE, accounts |-> <<>>], [hedera |-> FALSE, accounts |-> <<>>]}

\* the records a caller-written adapter's connect() resolves with
CustomRecords == {Info(Acc456, <<"testnet">>, Undefined)}

(***************************************************************************)
(* Wallet adapters                                                         *)
(***************************************************************************)

AdapterKinds == {"hashconnect", "walletconnect", "stub", "custom"}

\* adapter.isAvailable() of the adapter of kind k; a caller-written adapter
\* reports itself available
IsAvailable(k) ==
    CASE k = "hashconnect" -> hasWindow /\ hashpack.present
      [] k = "walletconnect" -> wcProvider
      [] k = "stub" -> FALSE
      [] OTHER -> TRUE

\* the adapter has an init method
HasInit(k) == k \in {"hashconnect", "walletconnect"}

ConnectCandidates == <<"connectToLocalWallet", "connect", "connectWallet", "connectToWallet">>

NoMethod == ""

\* typeof hp[name] === 'function'
Callable(hp, name) == \E i \in DOMAIN hp.methods : hp.methods[i] = name

\* HashConnectAdapter.probeConnectMethod(hp): the first candidate that is
\* callable, else the first callable own key, else null
ProbeConnectMethod(hp) ==
    IF ~hp.present THEN NoMethod
    ELSE IF \E i \in DOMAIN ConnectCandidates : Callable(hp, ConnectCandidates[i])
    THEN ConnectCandidates[CHOOSE i \in DOMAIN ConnectCandidates :
            /\ Callable(hp, ConnectCandidates[i])
            /\ \A j \in 1..(i - 1) : ~Callable(hp, ConnectCandidates[j])]
    ELSE IF Len(hp.methods) > 0 THEN hp.methods[1]
    ELSE NoMethod

\* a record built from the last account of the list
HashConnectInfoLastAccount(result) ==
    Info(result.accountIds[Len(result.accountIds)], OrStr(result.network, <<"testnet">>),
         result.publicKey)

\* the record HashConnectAdapter.connect builds from the provider's result
HashConnectInfo(result) ==
    Info(result.accountIds[1], OrStr(result.network, <<"testnet">>), result.publicKey)

\* accountStr of WalletConnectAdapter.connect: the first account of the hedera
\* namespace, or null (here the empty string, which is falsy as well)
WcAccountStr(session) ==
    IF session.hedera /\ Len(session.accounts) > 0 THEN session.accounts[1] ELSE <<>>

\* the record WalletConnectAdapter.connect builds from 'hedera:network:accountId'
WalletConnectInfo(accountStr) ==
    LET parts == Split(accountStr, ":")
    IN  Info(At(parts, 2),
             IF At(parts, 1) = <<"mainnet">> THEN <<"mainnet">> ELSE <<"testnet">>,
             Undefined)

\* localStorage.setItem('hedera_wallet_connection', JSON.stringify(info)),
\* done only in a browser
Persisted(info) == IF hasWindow THEN Stringify(info) ELSE slot

\* whether localStorage.removeItem returns (TRUE) or throws, as it does on a
\* page that is denied access to its storage; outside a browser it is not
\* called
RemoveItemOutcomes == IF hasWindow THEN BOOLEAN ELSE {TRUE}

\* whether localStorage.getItem returns (TRUE) or throws, as it does on a
\* page that is denied access to its storage; outside a browser it is not
\* called
GetItemOutcomes == IF hasWindow THEN BOOLEAN ELSE {TRUE}

\* localStorage.removeItem('hedera_wallet_connection'), done only in a
\* browser; a call that throws leaves the item
Removed(removed) == IF hasWindow /\ removed THEN NoItem ELSE slot

(***************************************************************************)
(* WalletManager                                                           *)
(* One call of each operation can be in flight; calls of different         *)
(* operations interleave at their awaits. setAdapter replaces the adapter  *)
(* at any time; a call in flight goes on inside the adapter object it was  *)
(* made on.                                                                *)
(*   calls[op]: pc         done (no call in flight), wait (connect() of a  *)
(*                         HashConnectAdapter at its await on              *)
(*                         waitForHashPack, which has returned), poll      *)
(*                         (the same, waitForHashPack is polling),         *)
(*                         provider (suspended inside the adapter, at its  *)
(*                         await on the provider), adapter (the adapter's  *)
(*                         promise has settled, the manager's await has    *)
(*                         not resumed)                                    *)
(*              info       the record adapter.connect resolved with        *)
(*              adapterOk  the adapter's promise was fulfilled             *)
(*              ok         the manager's promise was fulfilled (last call) *)
(*              delegated  the call invoked the adapter's method           *)
(*              on         at pc provider, the adapter object that awaits  *)
(*                         its provider: its kind, or ReplacedWc for a     *)
(*                         WalletConnectAdapter that setAdapter has        *)
(*                         replaced since; none otherwise                  *)
(*   wcProvider: this.provider of the manager's adapter is set (FALSE for  *)
(*               an adapter that is no WalletConnectAdapter)               *)
(***************************************************************************)

Ops == {"connect", "disconnect", "init", "requestTransaction"}

NoCall ==
    [pc |-> "done", info |-> NullInfo, adapterOk |-> TRUE, ok |-> TRUE, delegated |-> FALSE,
     on |-> "none"]

\* a call suspended at an await
Suspended(pc, info, adapterOk) ==
    [pc |-> pc, info |-> info, adapterOk |-> adapterOk, ok |-> TRUE, delegated |-> TRUE,
     on |-> "none"]

\* a call suspended inside the adapter object `on`, at its await on the
\* provider
AtProvider(on) ==
    [pc |-> "provider", info |-> NullInfo, adapterOk |-> TRUE, ok |-> TRUE,
     delegated |-> TRUE, on |-> on]

\* a WalletConnectAdapter that is no longer the manager's adapter
ReplacedWc == "walletconnect (replaced)"

\* a call whose promise has settled
Settled(ok, delegated) ==
    [pc |-> "done", info |-> NullInfo, adapterOk |-> ok, ok |-> ok, delegated |-> delegated,
     on |-> "none"]

\* isConnected()
IsConnected == connectionInfo # NullInfo

\* getConnectionInfo()
GetConnectionInfo == connectionInfo

\* isHashPackAvailable(): the window.hashpack global, else the adapter's
\* isAvailable()
IsHashPackAvailable == (hasWindow /\ hashpack.present) \/ IsAvailable(adapter)

\* the adapters of a manager constructed without an adapter argument: a
\* WalletConnectAdapter when WALLETCONNECT_PROJECT_ID is set, else the stub
DefaultAdapterKinds == {"walletconnect", "stub"}

\* a time that has not come
Never == -1

\* waitForHashPack() has not been called
\*   pc          idle | sleeping | returned
\*   timeoutMs   the argument
\*   clock       Date.now() - start
\*   wakeAt      when the pending setTimeout is due
\*   polls       reads of window.hashpack made
\*   lastPollAt  clock reading of the latest read
\*   injectedAt  clock reading when window.hashpack appeared
\*   result      none | hp | null
\*   returnedAt  clock reading when the promise resolved
\*   late        a timer fired after its due time
\*   connect     none | pending | notAvailable | noApi | provider: how far the
\*               connect() that made the call has got
IdleWait ==
    [pc |-> "idle", timeoutMs |-> 0, clock |-> 0, wakeAt |-> 0, polls |-> 0,
     lastPollAt |-> Never, injectedAt |-> Never, result |-> "none",
     returnedAt |-> Never, late |-> FALSE, connect |-> "none"]

\* the wallet is constructed but nobody uses it
WalletUnused ==
    /\ hasWindow = FALSE
    /\ hashpack = NoHashPack
    /\ slot = NoItem
    /\ adapter = "stub"
    /\ wcProvider = FALSE
    /\ connectionInfo = NullInfo
    /\ calls = [op \in Ops |-> NoCall]
    /\ flow = "other"
    /\ peer = NullInfo
    /\ afterDisconnect = "untracked"
    /\ wait = IdleWait

\* new WalletManager(adapter?): an injected adapter, a WalletConnectAdapter
\* when WALLETCONNECT_PROJECT_ID is set, else the stub; in a browser the slot
\* holds whatever was left there
InitWallet ==
    /\ hasWindow \in BOOLEAN
    /\ hashpack \in (IF hasWindow THEN {NoHashPack} \cup HashPackObjects ELSE {NoHashPack})
    /\ slot \in (IF hasWindow THEN {NoItem} \cup ExternalTexts ELSE {NoItem})
    /\ adapter \in AdapterKinds
    /\ wcProvider = FALSE
    /\ connectionInfo = NullInfo
    /\ calls = [op \in Ops |-> NoCall]
    /\ flow = "other"
    /\ peer = NullInfo
    /\ afterDisconnect = "untracked"
    /\ wait = [IdleWait EXCEPT !.injectedAt = IF hashpack.present THEN 0 ELSE Never]

\* setAdapter(adapter) with a HashConnectAdapter, a new WalletConnectAdapter
\* or a caller-written adapter: `this.adapter = adapter`, whatever is in
\* flight; the calls in flight keep the adapter object they run in
SetAdapter(k) ==
    /\ k \in {"hashconnect", "walletconnect", "custom"}
    /\ adapter' = k
    /\ wcProvider' = FALSE
    /\ calls' = [op \in Ops |->
                    IF calls[op].on = "walletconnect"
                    THEN [calls[op] EXCEPT !.on = ReplacedWc]
                    ELSE calls[op]]
    /\ flow' = "other"
    /\ UNCHANGED peer
    /\ UNCHANGED afterDisconnect
    /\ UNCHANGED wait
    /\ UNCHANGED <<hasWindow, hashpack, slot, connectionInfo, httpVars, rateVars, mgrVars>>

\* adapter.connect() up to its first await.  HashConnectAdapter awaits
\* waitForHashPack(10000), which has returned at its first read (the object,
\* or null outside a browser) or polls; WalletConnectAdapter throws
\* without a provider and else awaits provider.connect(); the stub throws
AdapterConnect(k) ==
    CASE k = "hashconnect" ->
            IF hasWindow /\ ~hashpack.present
            THEN Suspended("poll", NullInfo, TRUE)
            ELSE Suspended("wait", NullInfo, TRUE)
      [] k = "walletconnect" ->
            IF wcProvider THEN AtProvider("walletconnect")
            ELSE Suspended("adapter", NullInfo, FALSE)
      [] k = "custom" -> AtProvider("custom")
      [] OTHER -> Suspended("adapter", NullInfo, FALSE)

\* connect() that delegates without asking isAvailable()
ManagerConnectUnchecked ==
    /\ calls["connect"].pc = "done"
    /\ calls' = [calls EXCEPT !["connect"] = AdapterConnect(adapter)]
    /\ flow' = IF flow = "disconnected" THEN "reconnecting" ELSE "connecting"
    /\ UNCHANGED peer
    /\ afterDisconnect' = IF afterDisconnect = "clean" /\ calls'["connect"].pc # "done"
                          THEN "called" ELSE afterDisconnect
    /\ UNCHANGED wait
    /\ UNCHANGED <<hasWindow, hashpack, slot, adapter, wcProvider, connectionInfo,
                   httpVars, rateVars, mgrVars>>

\* WalletManager.connect() up to `await this.adapter.connect()`
ManagerConnect ==
    /\ calls["connect"].pc = "done"
    /\ calls' = [calls EXCEPT !["connect"] =
                    IF ~IsAvailable(adapter) THEN Settled(FALSE, FALSE)
                    ELSE AdapterConnect(adapter)]
    /\ flow' = IF flow = "disconnected" THEN "reconnecting" ELSE "connecting"
    /\ UNCHANGED peer
    /\ afterDisconnect' = IF afterDisconnect = "clean" /\ calls'["connect"].pc # "done"
                          THEN "called" ELSE afterDisconnect
    /\ UNCHANGED wait
    /\ UNCHANGED <<hasWindow, hashpack, slot, adapter, wcProvider, connectionInfo,
                   httpVars, rateVars, mgrVars>>

\* the provider's connect call rejects: adapter.connect() rejects
ProviderRejects ==
    /\ calls["connect"].pc = "provider"
    /\ calls' = [calls EXCEPT !["connect"] = Suspended("adapter", NullInfo, FALSE)]
    /\ UNCHANGED flow
    /\ UNCHANGED peer
    /\ afterDisconnect' = IF afterDisconnect = "called"
                          THEN (IF calls'["connect"].adapterOk THEN "none" ELSE "clean")
                          ELSE afterDisconnect
    /\ UNCHANGED wait
    /\ UNCHANGED <<hasWindow, hashpack, slot, adapter, wcProvider, connectionInfo,
                   httpVars, rateVars, mgrVars>>

\* HashConnectAdapter.connect() after `await this.waitForHashPack(10000)`:
\* it throws when that resolved with null or when the object has no connect
\* method, and else calls the method.  A wait that returned at its first
\* read resolved with what was there; a wait that polls resolves with the
\* object a poll finds or, when its 10 s run out first, with null
HashConnectWaitSettles(found) ==
    /\ calls["connect"].pc \in {"wait", "poll"}
    /\ found \in (IF calls["connect"].pc = "wait" THEN {hasWindow /\ hashpack.present}
                  ELSE IF hashpack.present THEN BOOLEAN ELSE {FALSE})
    /\ calls' = [calls EXCEPT !["connect"] =
                    IF found /\ ProbeConnectMethod(hashpack) # NoMethod
                    THEN AtProvider("hashconnect")
                    ELSE Suspended("adapter", NullInfo, FALSE)]
    /\ UNCHANGED flow
    /\ UNCHANGED peer
    /\ afterDisconnect' = IF afterDisconnect = "called" /\ calls'["connect"].pc = "adapter"
                          THEN "clean" ELSE afterDisconnect
    /\ UNCHANGED wait
    /\ UNCHANGED <<hasWindow, hashpack, slot, adapter, wcProvider, connectionInfo,
                   httpVars, rateVars, mgrVars>>

\* whether localStorage.setItem returns (TRUE) or throws, as it does when the
\* quota is exhausted; outside a browser it is not called
SetItemOutcomes == IF hasWindow THEN BOOLEAN ELSE {TRUE}

\* what HashConnectAdapter.connect() throws once the provider has resolved
HashConnectThrows(result, stored) ==
    IF Len(result.accountIds) = 0 THEN "No accounts returned by HashPack"
    ELSE IF ~stored THEN "localStorage.setItem throws"
    ELSE "nothing"

\* HashConnectAdapter.connect() from the provider's result to its return; a
\* throwing setItem makes it reject
HashPackResolves(result, stored) ==
    /\ calls["connect"].pc = "provider"
    /\ calls["connect"].on = "hashconnect"
    /\ result \in HashPackResults
    /\ stored \in SetItemOutcomes
    /\ IF HashConnectThrows(result, stored) # "nothing"
       THEN /\ calls' = [calls EXCEPT !["connect"] = Suspended("adapter", NullInfo, FALSE)]
            /\ UNCHANGED slot
       ELSE /\ calls' = [calls EXCEPT !["connect"] =
                            Suspended("adapter", HashConnectInfo(result), TRUE)]
            /\ slot' = Persisted(HashConnectInfo(result))
    /\ UNCHANGED flow
    /\ UNCHANGED peer
    /\ afterDisconnect' = IF afterDisconnect = "called"
                          THEN (IF calls'["connect"].adapterOk THEN "none" ELSE "clean")
                          ELSE afterDisconnect
    /\ UNCHANGED wait
    /\ UNCHANGED <<hasWindow, hashpack, adapter, wcProvider, connectionInfo,
                   httpVars, rateVars, mgrVars>>

\* WalletConnectAdapter.connect() from the negotiated session to its return; a
\* throwing setItem is caught and ignored
WcResolves(session, stored) ==
    /\ calls["connect"].pc = "provider"
    /\ calls["connect"].on \in {"walletconnect", ReplacedWc}
    /\ session \in WcSessions
    /\ stored \in SetItemOutcomes
    /\ IF WcAccountStr(session) = <<>>
       THEN /\ calls' = [calls EXCEPT !["connect"] = Suspended("adapter", NullInfo, FALSE)]
            /\ UNCHANGED slot
       ELSE /\ calls' = [calls EXCEPT !["connect"] =
                            Suspended("adapter", WalletConnectInfo(WcAccountStr(session)), TRUE)]
            /\ slot' = IF stored THEN Persisted(WalletConnectInfo(WcAccountStr(session)))
                       ELSE slot
    /\ UNCHANGED flow
    /\ UNCHANGED peer
    /\ afterDisconnect' = IF afterDisconnect = "called"
                          THEN (IF calls'["connect"].adapterOk THEN "none" ELSE "clean")
                          ELSE afterDisconnect
    /\ UNCHANGED wait
    /\ UNCHANGED <<hasWindow, hashpack, adapter, wcProvider, connectionInfo,
                   httpVars, rateVars, mgrVars>>

\* a caller-written adapter's connect() resolves with a record
CustomResolves(record) ==
    /\ calls["connect"].pc = "provider"
    /\ calls["connect"].on = "custom"
    /\ record \in CustomRecords
    /\ calls' = [calls EXCEPT !["connect"] = Suspended("adapter", record, TRUE)]
    /\ UNCHANGED flow
    /\ UNCHANGED peer
    /\ afterDisconnect' = IF afterDisconnect = "called"
                          THEN (IF calls'["connect"].adapterOk THEN "none" ELSE "clean")
                          ELSE afterDisconnect
    /\ UNCHANGED wait
    /\ UNCHANGED <<hasWindow, hashpack, slot, adapter, wcProvider, connectionInfo,
                   httpVars, rateVars, mgrVars>>

\* connect() that assigns whatever the await left, a failure included
ConnectResumesAssigningAlways ==
    /\ calls["connect"].pc = "adapter"
    /\ connectionInfo' = calls["connect"].info
    /\ calls' = [calls EXCEPT !["connect"] = Settled(calls["connect"].adapterOk, TRUE)]
    /\ flow' = IF calls["connect"].adapterOk /\ flow \in {"connecting", "reconnecting"}
                THEN "connected" ELSE "other"
    /\ UNCHANGED peer
    /\ UNCHANGED afterDisconnect
    /\ UNCHANGED wait
    /\ UNCHANGED <<hasWindow, hashpack, slot, adapter, wcProvider, httpVars, rateVars, mgrVars>>

\* WalletManager.connect() after the await: adopt the record and return it,
\* or pass the adapter's rejection on
ConnectResumes ==
    /\ calls["connect"].pc = "adapter"
    /\ connectionInfo' = IF calls["connect"].adapterOk THEN calls["connect"].info
                         ELSE connectionInfo
    /\ calls' = [calls EXCEPT !["connect"] = Settled(calls["connect"].adapterOk, TRUE)]
    /\ flow' = IF calls["connect"].adapterOk /\ flow \in {"connecting", "reconnecting"}
                THEN "connected" ELSE "other"
    /\ UNCHANGED peer
    /\ UNCHANGED afterDisconnect
    /\ UNCHANGED wait
    /\ UNCHANGED <<hasWindow, hashpack, slot, adapter, wcProvider, httpVars, rateVars, mgrVars>>

\* WalletManager.disconnect() up to the first await inside or after
\* adapter.disconnect(); calleeOk is whether a caller-written adapter's
\* disconnect() fulfils its promise, or whether window.hashpack.disconnect()
\* returns rather than throws (HashConnectAdapter catches the throw).
\* HashConnectAdapter calls removeItem outside its try block, so that a
\* throwing removeItem rejects its promise; WalletConnectAdapter catches the
\* throw
ManagerDisconnect(calleeOk, removed) ==
    /\ calls["disconnect"].pc = "done"
    /\ removed \in RemoveItemOutcomes
    /\ calleeOk \in (IF \/ adapter = "custom"
                         \/ /\ adapter = "hashconnect"
                            /\ hasWindow
                            /\ Callable(hashpack, "disconnect")
                      THEN BOOLEAN ELSE {TRUE})
    /\ CASE adapter = "hashconnect" ->
                /\ slot' = Removed(removed)
                /\ calls' = [calls EXCEPT !["disconnect"] =
                                Suspended("adapter", NullInfo, removed)]
                /\ UNCHANGED wcProvider
         [] adapter = "walletconnect" /\ wcProvider ->
                /\ calls' = [calls EXCEPT !["disconnect"] = AtProvider("walletconnect")]
                /\ UNCHANGED <<slot, wcProvider>>
         [] adapter = "walletconnect" /\ ~wcProvider ->
                /\ calls' = [calls EXCEPT !["disconnect"] = Suspended("adapter", NullInfo, TRUE)]
                /\ slot' = Removed(removed)
                /\ wcProvider' = FALSE
         [] adapter = "stub" ->
                /\ calls' = [calls EXCEPT !["disconnect"] = Suspended("adapter", NullInfo, TRUE)]
                /\ UNCHANGED <<slot, wcProvider>>
         [] OTHER ->
                /\ calls' = [calls EXCEPT !["disconnect"] = Suspended("adapter", NullInfo, calleeOk)]
                /\ UNCHANGED <<slot, wcProvider>>
    /\ flow' = IF flow = "connected" THEN "disconnecting" ELSE "other"
    /\ UNCHANGED peer
    /\ UNCHANGED afterDisconnect
    /\ UNCHANGED wait
    /\ UNCHANGED <<hasWindow, hashpack, adapter, connectionInfo, httpVars, rateVars, mgrVars>>

\* WalletConnectAdapter.disconnect() that keeps its provider
WcDisconnectSettlesKeepingProvider(providerOk, removed) ==
    /\ calls["disconnect"].pc = "provider"
    /\ providerOk \in BOOLEAN
    /\ removed \in RemoveItemOutcomes
    /\ wcProvider' = wcProvider
    /\ slot' = Removed(removed)
    /\ calls' = [calls EXCEPT !["disconnect"] = Suspended("adapter", NullInfo, TRUE)]
    /\ UNCHANGED flow
    /\ UNCHANGED peer
    /\ UNCHANGED afterDisconnect
    /\ UNCHANGED wait
    /\ UNCHANGED <<hasWindow, hashpack, adapter, connectionInfo, httpVars, rateVars, mgrVars>>

\* WalletConnectAdapter.disconnect() after `await this.provider.disconnect()`,
\* whether that fulfilled or rejected: drop the provider and call removeItem
\* inside a try block whose catch is empty
WcDisconnectSettles(providerOk, removed) ==
    /\ calls["disconnect"].pc = "provider"
    /\ providerOk \in BOOLEAN
    /\ removed \in RemoveItemOutcomes
    /\ wcProvider' = IF calls["disconnect"].on = "walletconnect" THEN FALSE ELSE wcProvider
    /\ slot' = Removed(removed)
    /\ calls' = [calls EXCEPT !["disconnect"] = Suspended("adapter", NullInfo, TRUE)]
    /\ UNCHANGED flow
    /\ UNCHANGED peer
    /\ UNCHANGED afterDisconnect
    /\ UNCHANGED wait
    /\ UNCHANGED <<hasWindow, hashpack, adapter, connectionInfo, httpVars, rateVars, mgrVars>>

\* WalletManager.disconnect() after the await: clear the record, or pass the
\* adapter's rejection on
DisconnectResumes ==
    /\ calls["disconnect"].pc = "adapter"
    /\ connectionInfo' = IF calls["disconnect"].adapterOk THEN NullInfo ELSE connectionInfo
    /\ calls' = [calls EXCEPT !["disconnect"] = Settled(calls["disconnect"].adapterOk, TRUE)]
    /\ flow' = IF flow = "disconnecting" /\ calls["disconnect"].adapterOk
               THEN "disconnected" ELSE "other"
    /\ UNCHANGED peer
    /\ afterDisconnect' = IF afterDisconnect # "untracked" /\ calls["disconnect"].adapterOk
                          THEN "clean" ELSE afterDisconnect
    /\ UNCHANGED wait
    /\ UNCHANGED <<hasWindow, hashpack, slot, adapter, wcProvider, httpVars, rateVars, mgrVars>>

\* the catch block of restoreConnection() is entered: getItem threw, or
\* JSON.parse threw on the item
RestoreCatches(got) == hasWindow /\ (~got \/ (Truthy(slot) /\ ParseThrows(slot)))

\* restoreConnection() throws: getItem or JSON.parse threw, and then the
\* removeItem of the catch block
RestoreThrows(got, removed) == RestoreCatches(got) /\ ~removed

\* the effect of restoreConnection() on the record and the slot
RestoreEffect(got, removed) ==
    IF RestoreCatches(got)
    THEN /\ slot' = Removed(removed)
         /\ UNCHANGED connectionInfo
    ELSE IF ~hasWindow \/ ~Truthy(slot)
    THEN UNCHANGED <<slot, connectionInfo>>
    ELSE /\ connectionInfo' = Parse(slot)
         /\ UNCHANGED slot

\* restoreConnection() called directly; it returns, or throws what the
\* removeItem of its catch block threw
RestoreConnection(got, removed) ==
    /\ got \in GetItemOutcomes
    /\ removed \in RemoveItemOutcomes
    /\ RestoreEffect(got, removed)
    /\ flow' = "other"
    /\ UNCHANGED peer
    /\ UNCHANGED afterDisconnect
    /\ UNCHANGED wait
    /\ UNCHANGED <<hasWindow, hashpack, adapter, wcProvider, calls, httpVars, rateVars, mgrVars>>

\* WalletManager.init() up to `await this.adapter.init()`; with an adapter
\* that has no init method the call runs restoreConnection() at once, and
\* rejects when that throws
ManagerInit(got, removed) ==
    /\ calls["init"].pc = "done"
    /\ got \in GetItemOutcomes
    /\ removed \in RemoveItemOutcomes
    /\ IF HasInit(adapter)
       THEN /\ calls' = [calls EXCEPT !["init"] =
                    IF adapter = "walletconnect" /\ ~wcProvider
                    THEN AtProvider("walletconnect")
                    ELSE Suspended("adapter", NullInfo, TRUE)]
            /\ UNCHANGED <<slot, connectionInfo>>
       ELSE /\ calls' = [calls EXCEPT !["init"] = Settled(~RestoreThrows(got, removed), FALSE)]
            /\ RestoreEffect(got, removed)
    /\ flow' = "other"
    /\ UNCHANGED peer
    /\ UNCHANGED afterDisconnect
    /\ UNCHANGED wait
    /\ UNCHANGED <<hasWindow, hashpack, adapter, wcProvider, httpVars, rateVars, mgrVars>>

\* how WalletConnectAdapter.init() can go: everything loads; an import
\* rejects; the universal-provider export has no init function;
\* UniversalProvider.init rejects; constructing the Hedera connector throws
WcInitOutcomes == {"loaded", "importFails", "invalidExport", "initRejects", "connectorFails"}

\* init() with every outcome leaving the provider in place
ProviderKeptAlways(outcome) == TRUE

\* this.provider is set after init(): the outer catch clears it, the inner
\* catch around the connector only clears this.connector, a field no method
\* reads
ProviderKept(outcome) == outcome \in {"loaded", "connectorFails"}

\* WalletConnectAdapter.init() from its first await to its return; it
\* catches every failure and resolves
WcInitSettles(outcome) ==
    /\ calls["init"].pc = "provider"
    /\ outcome \in WcInitOutcomes
    /\ wcProvider' = IF calls["init"].on = "walletconnect"
                     THEN ProviderKept(outcome) ELSE wcProvider
    /\ calls' = [calls EXCEPT !["init"] = Suspended("adapter", NullInfo, TRUE)]
    /\ flow' = "other"
    /\ UNCHANGED peer
    /\ UNCHANGED afterDisconnect
    /\ UNCHANGED wait
    /\ UNCHANGED <<hasWindow, hashpack, slot, adapter, connectionInfo, httpVars, rateVars, mgrVars>>

\* WalletManager.init() after the await: restoreConnection(), whose throw
\* rejects init()
InitResumes(got, removed) ==
    /\ calls["init"].pc = "adapter"
    /\ got \in GetItemOutcomes
    /\ removed \in RemoveItemOutcomes
    /\ RestoreEffect(got, removed)
    /\ calls' = [calls EXCEPT !["init"] = Settled(~RestoreThrows(got, removed), TRUE)]
    /\ flow' = "other"
    /\ UNCHANGED peer
    /\ UNCHANGED afterDisconnect
    /\ UNCHANGED wait
    /\ UNCHANGED <<hasWindow, hashpack, adapter, wcProvider, httpVars, rateVars, mgrVars>>

\* adapter.requestTransaction(transaction) up to its await on the provider:
\* it is suspended there, or it has thrown (no HashPack request API, no
\* WalletConnect provider, the stub)
AdapterRequestTransaction(k) ==
    IF \/ k = "hashconnect" /\ hasWindow /\ hashpack.present
                            /\ Callable(hashpack, "requestTransaction")
       \/ k = "walletconnect" /\ wcProvider
       \/ k = "custom"
    THEN Suspended("provider", NullInfo, TRUE)
    ELSE Settled(FALSE, TRUE)

\* requestTransaction() that delegates without asking isConnected()
ManagerRequestTransactionUnchecked ==
    /\ calls["requestTransaction"].pc = "done"
    /\ calls' = [calls EXCEPT !["requestTransaction"] = AdapterRequestTransaction(adapter)]
    /\ flow' = "other"
    /\ UNCHANGED peer
    /\ UNCHANGED afterDisconnect
    /\ UNCHANGED wait
    /\ UNCHANGED <<hasWindow, hashpack, slot, adapter, wcProvider, connectionInfo,
                   httpVars, rateVars, mgrVars>>

\* WalletManager.requestTransaction(transaction) up to
\* `await this.adapter.requestTransaction(transaction)`
ManagerRequestTransaction ==
    /\ calls["requestTransaction"].pc = "done"
    /\ calls' = [calls EXCEPT !["requestTransaction"] =
                    IF ~IsConnected THEN Settled(FALSE, FALSE)
                    ELSE AdapterRequestTransaction(adapter)]
    /\ flow' = "other"
    /\ UNCHANGED peer
    /\ UNCHANGED afterDisconnect
    /\ UNCHANGED wait
    /\ UNCHANGED <<hasWindow, hashpack, slot, adapter, wcProvider, connectionInfo,
                   httpVars, rateVars, mgrVars>>

\* the provider's request settles; the adapter returns the signed bytes or
\* throws, and the manager's promise settles the same way
RequestTransactionSettles(ok) ==
    /\ calls["requestTransaction"].pc = "provider"
    /\ ok \in BOOLEAN
    /\ calls' = [calls EXCEPT !["requestTransaction"] = Settled(ok, TRUE)]
    /\ flow' = "other"
    /\ UNCHANGED peer
    /\ UNCHANGED afterDisconnect
    /\ UNCHANGED wait
    /\ UNCHANGED <<hasWindow, hashpack, slot, adapter, wcProvider, connectionInfo,
                   httpVars, rateVars, mgrVars>>

\* the browser extension injects window.hashpack
InjectHashPack(hp) ==
    /\ hasWindow
    /\ ~hashpack.present
    /\ hp \in HashPackObjects
    /\ hashpack' = hp
    /\ UNCHANGED flow
    /\ UNCHANGED peer
    /\ UNCHANGED afterDisconnect
    /\ wait' = [wait EXCEPT !.injectedAt = wait.clock]
    /\ UNCHANGED <<hasWindow, slot, adapter, wcProvider, connectionInfo, calls,
                   httpVars, rateVars, mgrVars>>

\* other code of the page, or another tab, writes or removes the item
StoreExternal(text) ==
    /\ hasWindow
    /\ text \in ExternalTexts \cup {NoItem}
    /\ text # slot
    /\ slot' = text
    /\ UNCHANGED flow
    /\ UNCHANGED peer
    /\ UNCHANGED afterDisconnect
    /\ UNCHANGED wait
    /\ UNCHANGED <<hasWindow, hashpack, adapter, wcProvider, connectionInfo, calls,
                   httpVars, rateVars, mgrVars>>

\* what restoreConnection() returns when getItem returns: the parsed item,
\* or null
RestoreConnectionResult ==
    IF ~hasWindow \/ ~Truthy(slot) \/ ParseThrows(slot) THEN NullInfo ELSE Parse(slot)

\* restoreConnection() (or init()) on the second manager, constructed without
\* an adapter: the same localStorage item, its own record
PeerRestoreConnection(got, removed) ==
    /\ got \in GetItemOutcomes
    /\ removed \in RemoveItemOutcomes
    /\ IF RestoreCatches(got)
       THEN /\ slot' = Removed(removed)
            /\ UNCHANGED peer
       ELSE IF ~hasWindow \/ ~Truthy(slot)
       THEN UNCHANGED <<slot, peer>>
       ELSE /\ peer' = Parse(slot)
            /\ UNCHANGED slot
    /\ UNCHANGED afterDisconnect
    /\ UNCHANGED wait
    /\ UNCHANGED <<hasWindow, hashpack, adapter, wcProvider, connectionInfo, calls, flow,
                   httpVars, rateVars, mgrVars>>

\* disconnect() on the second manager: its stub adapter does nothing, the
\* record is cleared
PeerDisconnect ==
    /\ peer # NullInfo
    /\ peer' = NullInfo
    /\ UNCHANGED afterDisconnect
    /\ UNCHANGED wait
    /\ UNCHANGED <<hasWindow, hashpack, slot, adapter, wcProvider, connectionInfo, calls, flow,
                   httpVars, rateVars, mgrVars>>

\* two managers of one page: the first holds a HashConnectAdapter
\* setTimeout(res, 250)
PollInterval == 250

\* the bound connect() waits for the injection: waitForHashPack(10000)
ConnectWaitMs == 10000

\* the timeouts waitForHashPack is called with
WaitTimeouts == {0, 600, ConnectWaitMs}

\* a loop that polls once more when the timeout has just elapsed
LoopContinuesInclusive(elapsed, timeoutMs) == elapsed <= timeoutMs

\* while (Date.now() - start < timeoutMs)
LoopContinues(elapsed, timeoutMs) == elapsed < timeoutMs

\* what connect() does with the value waitForHashPack resolved with, up to the
\* call of the provider's connect method
ConnectAfterWait(w, found) ==
    IF w.connect # "pending" THEN w.connect
    ELSE IF ~found THEN "notAvailable"
    ELSE IF ProbeConnectMethod(hashpack) = NoMethod THEN "noApi"
    ELSE "provider"

\* the loop of waitForHashPack from its condition on, up to the next await or
\* the return
PollBody(w) ==
    IF LoopContinues(w.clock, w.timeoutMs)
    THEN IF hashpack.present
         THEN [w EXCEPT !.pc = "returned", !.result = "hp", !.returnedAt = w.clock,
                        !.polls = @ + 1, !.lastPollAt = w.clock,
                        !.connect = ConnectAfterWait(w, TRUE)]
         ELSE [w EXCEPT !.pc = "sleeping", !.wakeAt = w.clock + PollInterval,
                        !.polls = @ + 1, !.lastPollAt = w.clock]
    ELSE [w EXCEPT !.pc = "returned", !.result = "null", !.returnedAt = w.clock,
                   !.connect = ConnectAfterWait(w, FALSE)]

\* waitForHashPack(timeoutMs) called, by connect() or directly
WaitStarts(timeoutMs, caller) ==
    LET w == [wait EXCEPT !.timeoutMs = timeoutMs, !.connect = caller]
    IN  IF ~hasWindow
        THEN [w EXCEPT !.pc = "returned", !.result = "null", !.returnedAt = w.clock,
                       !.connect = ConnectAfterWait(w, FALSE)]
        ELSE PollBody(w)

\* adapter.waitForHashPack(timeoutMs)
WaitForHashPack(timeoutMs) ==
    /\ wait.pc = "idle"
    /\ timeoutMs \in WaitTimeouts
    /\ wait' = WaitStarts(timeoutMs, "none")
    /\ UNCHANGED <<hasWindow, hashpack, slot, adapter, wcProvider, connectionInfo, calls,
                   flow, peer, afterDisconnect, httpVars, rateVars, mgrVars>>

\* HashConnectAdapter.connect() called on the adapter itself, up to the first
\* suspension of its waitForHashPack(10000)
HashConnectAdapterConnect ==
    /\ wait.pc = "idle"
    /\ wait' = WaitStarts(ConnectWaitMs, "pending")
    /\ UNCHANGED <<hasWindow, hashpack, slot, adapter, wcProvider, connectionInfo, calls,
                   flow, peer, afterDisconnect, httpVars, rateVars, mgrVars>>

\* the 250 ms timer of the loop fires, when due or later, and the loop goes on
PollTimerFires ==
    /\ wait.pc = "sleeping"
    /\ wait.clock >= wait.wakeAt
    /\ wait' = PollBody([wait EXCEPT !.late = @ \/ wait.clock > wait.wakeAt])
    /\ UNCHANGED <<hasWindow, hashpack, slot, adapter, wcProvider, connectionInfo, calls,
                   flow, peer, afterDisconnect, httpVars, rateVars, mgrVars>>

\* time passes while the loop sleeps; a timer is late by one interval at most
PollTick ==
    /\ wait.pc = "sleeping"
    /\ wait.clock <= wait.wakeAt
    /\ wait' = [wait EXCEPT !.clock = @ + PollInterval]
    /\ UNCHANGED <<hasWindow, hashpack, slot, adapter, wcProvider, connectionInfo, calls,
                   flow, peer, afterDisconnect, httpVars, rateVars, mgrVars>>

NextPoll ==
    \/ \E timeoutMs \in WaitTimeouts : WaitForHashPack(timeoutMs)
    \/ HashConnectAdapterConnect
    \/ PollTimerFires
    \/ PollTick
    \/ \E hp \in HashPackObjects : InjectHashPack(hp)

NextSessions ==
    \/ ManagerConnect
    \/ \E found \in BOOLEAN : HashConnectWaitSettles(found)
    \/ ProviderRejects
    \/ \E result \in HashPackResults : \E stored \in BOOLEAN : HashPackResolves(result, stored)
    \/ ConnectResumes
    \/ \E calleeOk \in BOOLEAN : \E removed \in BOOLEAN : ManagerDisconnect(calleeOk, removed)
    \/ DisconnectResumes
    \/ \E got \in BOOLEAN : \E removed \in BOOLEAN : RestoreConnection(got, removed)
    \/ \E got \in BOOLEAN : \E removed \in BOOLEAN : PeerRestoreConnection(got, removed)
    \/ PeerDisconnect

NextWallet ==
    \/ \E k \in AdapterKinds : SetAdapter(k)
    \/ ManagerConnect
    \/ \E found \in BOOLEAN : HashConnectWaitSettles(found)
    \/ ProviderRejects
    \/ \E result \in HashPackResults : \E stored \in BOOLEAN : HashPackResolves(result, stored)
    \/ \E session \in WcSessions : \E stored \in BOOLEAN : WcResolves(session, stored)
    \/ \E record \in CustomRecords : CustomResolves(record)
    \/ ConnectResumes
    \/ \E calleeOk \in BOOLEAN : \E removed \in BOOLEAN : ManagerDisconnect(calleeOk, removed)
    \/ \E providerOk \in BOOLEAN : \E removed \in BOOLEAN : WcDisconnectSettles(providerOk, removed)
    \/ DisconnectResumes
    \/ \E got \in BOOLEAN : \E removed \in BOOLEAN : RestoreConnection(got, removed)
    \/ \E got \in BOOLEAN : \E removed \in BOOLEAN : ManagerInit(got, removed)
    \/ \E outcome \in WcInitOutcomes : WcInitSettles(outcome)
    \/ \E got \in BOOLEAN : \E removed \in BOOLEAN : InitResumes(got, removed)
    \/ \E hp \in HashPackObjects : InjectHashPack(hp)
    \/ \E text \in ExternalTexts \cup {NoItem} : StoreExternal(text)

\* the manager with requestTransaction(); the page and the slot are as the
\* manager found them
NextTransactions ==
    \/ \E k \in AdapterKinds : SetAdapter(k)
    \/ ManagerConnect
    \/ \E found \in BOOLEAN : HashConnectWaitSettles(found)
    \/ ProviderRejects
    \/ \E result \in HashPackResults : \E stored \in BOOLEAN : HashPackResolves(result, stored)
    \/ \E session \in WcSessions : \E stored \in BOOLEAN : WcResolves(session, stored)
    \/ \E record \in CustomRecords : CustomResolves(record)
    \/ ConnectResumes
    \/ \E calleeOk \in BOOLEAN : \E removed \in BOOLEAN : ManagerDisconnect(calleeOk, removed)
    \/ \E providerOk \in BOOLEAN : \E removed \in BOOLEAN : WcDisconnectSettles(providerOk, removed)
    \/ DisconnectResumes
    \/ \E got \in BOOLEAN : \E removed \in BOOLEAN : RestoreConnection(got, removed)
    \/ \E got \in BOOLEAN : \E removed \in BOOLEAN : ManagerInit(got, removed)
    \/ \E outcome \in WcInitOutcomes : WcInitSettles(outcome)
    \/ \E got \in BOOLEAN : \E removed \in BOOLEAN : InitResumes(got, removed)
    \/ ManagerRequestTransaction
    \/ \E ok \in BOOLEAN : RequestTransactionSettles(ok)

(***************************************************************************)
(* HTSManager                                                              *)
(* Each method passes its arguments to the API client.  Nothing queues or   *)
(* refuses a call: a call made while others are pending issues its request *)
(* at once, and the calls settle independently.                            *)
(*   hts: the sequence of the calls made, each with                        *)
(*        op         the method called                                     *)
(*        tokenId, accountId, amount   its arguments                       *)
(*        request    the request it issued through the client (0: none)    *)
(*        pc         awaiting | fulfilled | rejected                       *)
(***************************************************************************)

\* isValidTokenId(tokenId)
IsValidTokenId(s) ==
    /\ s # Undefined
    /\ s # <<>>
    /\ MatchesIdPattern(s)

\* isValidTopicId(topicId)
IsValidTopicId(s) ==
    /\ s # Undefined
    /\ s # <<>>
    /\ MatchesIdPattern(s)

\* the static WalletManager.isValidAccountId(accountId): the pattern alone
WalletIsValidAccountId(s) == MatchesIdPattern(s)

\* the ids a caller passes: well-formed, malformed, empty
IdInputs == {Acc123, BadAcc, <<>>}

\* no amount argument
NoAmount == [kind |-> "none", v |-> 0]

\* the amounts a caller passes: numbers up to MAX_SAFE_INTEGER by value, a
\* finite number above MAX_SAFE_INTEGER, Infinity, NaN, and a string
AmountInputs ==
    {[kind |-> "number", v |-> n] : n \in {-5, 0, 1, 100}}
    \cup {[kind |-> k, v |-> 0] : k \in {"huge", "infinity", "nan", "string"}}

\* validateAmount(amount): the message of the error it throws, or "ok"
ValidateAmount(a) ==
    IF a.kind \in {"string", "nan", "infinity"} THEN "Amount must be a valid number"
    ELSE IF a.kind = "number" /\ a.v <= 0 THEN "Amount must be positive"
    ELSE IF a.kind = "huge" THEN "Amount exceeds maximum safe integer"
    ELSE "ok"

\* a call of hts:
\*   op, tokenId, accountId, amount   the method called and its arguments
\*   request   the request it issued through the client (0: none); for
\*             batchDistributeRewards the first one
\*   batch     batchDistributeRewards: one <<amount, request>> entry for
\*             each distribution, in order
\*   pc        awaiting | fulfilled | rejected
\* no HTS call has been made
NoHtsCall == <<>>

FreeRequest ==
    CHOOSE r \in Reqs : req[r].pc = "idle" /\ \A q \in Reqs : req[q].pc = "idle" => r <= q

\* a manager method up to its await on the client: the arguments go to the
\* client as they are and the first attempt starts
HtsCall(op, tokenId, accountId, amount) ==
    /\ \E r \in Reqs : req[r].pc = "idle"
    /\ IssueBody(FreeRequest)
    /\ hts' = Append(hts, [op |-> op, tokenId |-> tokenId, accountId |-> accountId,
                           amount |-> amount, request |-> FreeRequest, batch |-> <<>>,
                           pc |-> "awaiting"])
    /\ UNCHANGED <<retryOptions, env, opWait, hcs, sdk, utilVars, rateVars, walletVars>>

\* getTokenInfo(tokenId): this.client.get(`/hedera/tokens/${tokenId}`)
GetTokenInfo(tokenId) ==
    /\ tokenId \in IdInputs
    /\ HtsCall("getTokenInfo", tokenId, <<>>, NoAmount)

\* distributeRewards(distribution): this.client.post('/hedera/gateway/hts/mint',
\* { amount: distribution.amount, ... })
DistributeRewards(amount) ==
    /\ amount \in AmountInputs
    /\ HtsCall("distributeRewards", <<>>, Acc123, amount)

\* associateToken(accountId, tokenId):
\* this.client.post('/hedera/gateway/hts/associate', { accountId, tokenId })
AssociateToken(accountId, tokenId) ==
    /\ accountId \in IdInputs
    /\ tokenId \in IdInputs
    /\ HtsCall("associateToken", tokenId, accountId, NoAmount)

\* the distributions batchDistributeRewards is called with: none, one or two,
\* each with a valid or an invalid amount
BatchAmounts == {[kind |-> "number", v |-> n] : n \in {-5, 100}}
BatchInputs ==
    {<<>>} \cup {<<a>> : a \in BatchAmounts} \cup {<<a, b>> : a, b \in BatchAmounts}

\* the request records the client uses for the next n requests, in order
RECURSIVE FreeRequests(_, _)
FreeRequests(n, taken) ==
    IF n = 0 THEN <<>>
    ELSE LET r == CHOOSE q \in Reqs \ taken :
                    /\ req[q].pc = "idle"
                    /\ \A o \in Reqs \ taken : req[o].pc = "idle" => q <= o
         IN  <<r>> \o FreeRequests(n - 1, taken \cup {r})

\* batchDistributeRewards(distributions) up to its await: distributeRewards
\* is called for every distribution in turn, each call posts its request and
\* suspends, and Promise.all waits for the promises (a call with no
\* distribution uses no request record: such calls are followed up to NumReq
\* calls of the manager)
BatchDistributeRewards(amounts) ==
    /\ amounts \in BatchInputs
    /\ Cardinality({r \in Reqs : req[r].pc = "idle"}) >= Len(amounts)
    /\ amounts = <<>> => Len(hts) < NumReq
    /\ LET rs == FreeRequests(Len(amounts), {})
       IN  /\ req' = [r \in Reqs |->
                        IF \E i \in DOMAIN rs : rs[i] = r
                        THEN [req[r] EXCEPT !.pc = "inflight", !.attempts = 1]
                        ELSE req[r]]
           /\ logs' = IF ShouldLog(env) THEN logs + Len(amounts) ELSE logs
           /\ hts' = Append(hts,
                        [op |-> "batchDistributeRewards", tokenId |-> <<>>,
                         accountId |-> Acc123,
                         amount |-> IF amounts = <<>> THEN NoAmount ELSE amounts[1],
                         request |-> IF amounts = <<>> THEN 0 ELSE rs[1],
                         batch |-> [i \in DOMAIN amounts |-> <<amounts[i], rs[i]>>],
                         pc |-> "awaiting"])
    /\ UNCHANGED <<retryOptions, env, opWait, hcs, sdk, utilVars, rateVars, walletVars>>

\* `await this.client.get/post(...)` followed by the read of a property of
\* the body: the method throws when the request was rejected or the body is
\* null
CallThrows(r) ==
    req[r].pc = "rejected" \/ (req[r].pc = "resolved" /\ PropertyReadThrows(req[r].result.data))

\* the client's promise of call c settles and the method returns or rethrows
HtsSettles(c) ==
    /\ c \in DOMAIN hts
    /\ hts[c].pc = "awaiting"
    /\ hts[c].op # "batchDistributeRewards"
    /\ req[hts[c].request].pc \in {"resolved", "rejected"}
    /\ hts' = [hts EXCEPT ![c].pc = IF CallThrows(hts[c].request)
                                    THEN "rejected" ELSE "fulfilled"]
    /\ UNCHANGED <<httpVars, opWait, hcs, sdk, utilVars, rateVars, walletVars>>

\* Promise.all of call c settles: it rejects as soon as one distributeRewards
\* call has thrown, whatever the others are doing, and fulfils once all have
\* returned
BatchSettles(c) ==
    /\ c \in DOMAIN hts
    /\ hts[c].pc = "awaiting"
    /\ hts[c].op = "batchDistributeRewards"
    /\ LET rs == {hts[c].batch[i][2] : i \in DOMAIN hts[c].batch}
       IN  \/ /\ \E r \in rs : CallThrows(r)
              /\ hts' = [hts EXCEPT ![c].pc = "rejected"]
           \/ /\ \A r \in rs : req[r].pc = "resolved" /\ ~CallThrows(r)
              /\ hts' = [hts EXCEPT ![c].pc = "fulfilled"]
    /\ UNCHANGED <<httpVars, opWait, hcs, sdk, utilVars, rateVars, walletVars>>

\* the HTS manager on a client that does not retry (the manager calls on a
\* retrying client are part of NextSdk)
NextHts ==
    \/ \E tokenId \in IdInputs : GetTokenInfo(tokenId)
    \/ \E amount \in AmountInputs : DistributeRewards(amount)
    \/ \E amounts \in BatchInputs : BatchDistributeRewards(amounts)
    \/ \E c \in DOMAIN hts : BatchSettles(c)
    \/ \E accountId \in IdInputs : \E tokenId \in IdInputs : AssociateToken(accountId, tokenId)
    \/ \E r \in Reqs : \E o \in SuccessOutcomes : RespondSuccess(r, o)
    \/ \E r \in Reqs : \E o \in FailureOutcomes : RespondFailure(r, o)
    \/ \E c \in DOMAIN hts : HtsSettles(c)


(***************************************************************************)
(* HCSManager                                                              *)
(* A string is the tuple of its characters; the control characters are     *)
(* written <NUL> (0x00), <LF> (0x0A), <ESC> (0x1B) and <DEL> (0x7F).       *)
(*   hcs: the sequence of the publishEvent calls made, each with           *)
(*        message, metadata   the body passed to the client                *)
(*        request    the request it issued through the client              *)
(*        pc         awaiting | fulfilled | rejected                       *)
(***************************************************************************)

\* the characters of /[\x00-\x1F\x7F]/ used in the model
ControlChars == {"<NUL>", "<LF>", "<ESC>", "<DEL>"}

\* the string holds a character of /[\x00-\x1F\x7F]/
HasControl(str) == \E i \in DOMAIN str : str[i] \in ControlChars

\* JSON.stringify of one character of a string: quote and backslash get a
\* backslash, U+0000..U+001F an escape sequence, anything else (0x7F
\* included) is copied
JsonEscape(ch) ==
    CASE ch = "\"" -> <<"\\", "\"">>
      [] ch = "\\" -> <<"\\", "\\">>
      [] ch = "<LF>" -> <<"\\", "n">>
      [] ch = "<NUL>" -> <<"\\", "u", "0", "0", "0", "0">>
      [] ch = "<ESC>" -> <<"\\", "u", "0", "0", "1", "b">>
      [] OTHER -> <<ch>>

RECURSIVE JsonEscapeAll(_)
JsonEscapeAll(str) ==
    IF str = <<>> THEN <<>> ELSE JsonEscape(Head(str)) \o JsonEscapeAll(Tail(str))

\* JSON.stringify(str) for a string
JsonString(str) == <<"\"">> \o JsonEscapeAll(str) \o <<"\"">>

\* a property value of an event: a string or a boolean
StringOf(str) == [t |-> "string", str |-> str]
BooleanOf(b) == [t |-> "boolean", b |-> b]

\* JSON.stringify(value) for a string or a boolean
JsonValue(value) ==
    IF value.t = "boolean"
    THEN (IF value.b THEN <<"t", "r", "u", "e">> ELSE <<"f", "a", "l", "s", "e">>)
    ELSE JsonString(value.str)

RECURSIVE JsonMembers(_)
JsonMembers(pairs) ==
    IF pairs = <<>> THEN <<>>
    ELSE JsonString(<<pairs[1][1]>>) \o <<":">> \o JsonValue(pairs[1][2])
         \o (IF Len(pairs) > 1 THEN <<",">> ELSE <<>>) \o JsonMembers(Tail(pairs))

\* JSON.stringify(obj) for an object of string and boolean values, as
\* <<key, value>> pairs
JsonObject(pairs) == <<"{">> \o JsonMembers(pairs) \o <<"}">>

\* obj with obj[key] = value: an existing key keeps its place
WithProperty(pairs, key, value) ==
    IF \E i \in DOMAIN pairs : pairs[i][1] = key
    THEN [i \in DOMAIN pairs |-> IF pairs[i][1] = key THEN <<key, value>> ELSE pairs[i]]
    ELSE Append(pairs, <<key, value>>)

RECURSIVE Spread(_, _)
\* { ...a, ...b }
Spread(a, b) ==
    IF b = <<>> THEN a ELSE Spread(WithProperty(a, b[1][1], b[1][2]), Tail(b))

\* new Date().toISOString()
IsoTimestamp == <<"2", "0", "2", "6", "-", "1", "0", "-", "3", "0", "T", "Z">>

\* string values a caller puts into an event
EventStrings ==
    {<<"o", "k">>,
     <<"a", "<LF>", "b">>,
     <<"<NUL>", "a">>,
     <<"a", "<ESC>">>,
     <<"a", "<DEL>">>,
     <<"a", "\"">>}

\* eventData.data and eventData.metadata (absent: no properties)
EventDataInputs == {<<<<"name", StringOf(v)>>>> : v \in EventStrings}
EventMetadataInputs ==
    {<<>>} \cup {<<<<k, StringOf(v)>>>> :
                    k \in {"name", "note"}, v \in {<<"o", "k">>, <<"a", "<LF>", "b">>}}

\* the event the error-handling test publishes:
\* { eventType: 'TEST', data: { test: true } }
TestEventData ==
    [eventType |-> "TEST", data |-> <<<<"test", BooleanOf(TRUE)>>>>, metadata |-> <<>>]

\* the events a caller publishes
EventInputs ==
    [eventType : {"MATCH_STARTED"}, data : EventDataInputs, metadata : EventMetadataInputs]
    \cup {TestEventData}

\* publishEvent has not been called
NoHcsCall == <<>>

\* the body publishEvent posts to '/hedera/gateway/hcs/publish'
PublishBody(eventType, data, metadata) ==
    [message |-> <<eventType, ":", " ">> \o JsonObject(data),
     metadata |-> Spread(Spread(data, metadata),
                         <<<<"timestamp", StringOf(IsoTimestamp)>>>>)]

\* publishEvent(eventData) up to its await on the client; a call made while
\* others are pending posts at once
PublishEvent(eventData) ==
    /\ eventData \in EventInputs
    /\ \E r \in Reqs : req[r].pc = "idle"
    /\ IssueBody(FreeRequest)
    /\ LET body == PublishBody(eventData.eventType, eventData.data, eventData.metadata)
       IN  hcs' = Append(hcs, [message |-> body.message, metadata |-> body.metadata,
                               request |-> FreeRequest, pc |-> "awaiting"])
    /\ UNCHANGED <<retryOptions, env, opWait, hts, sdk, utilVars, rateVars, walletVars>>

\* the client's promise of call c settles and publishEvent returns or
\* rethrows
HcsSettles(c) ==
    /\ c \in DOMAIN hcs
    /\ hcs[c].pc = "awaiting"
    /\ req[hcs[c].request].pc \in {"resolved", "rejected"}
    /\ hcs' = [hcs EXCEPT ![c].pc = IF CallThrows(hcs[c].request)
                                    THEN "rejected" ELSE "fulfilled"]
    /\ UNCHANGED <<httpVars, opWait, hts, sdk, utilVars, rateVars, walletVars>>

\* the HCS manager on a client that does not retry (publishEvent on a
\* retrying client is part of NextSdk)
NextHcs ==
    \/ \E eventData \in EventInputs : PublishEvent(eventData)
    \/ \E r \in Reqs : \E o \in SuccessOutcomes : RespondSuccess(r, o)
    \/ \E r \in Reqs : \E o \in FailureOutcomes : RespondFailure(r, o)
    \/ \E c \in DOMAIN hcs : HcsSettles(c)

(***************************************************************************)
(* redactSensitiveData                                                     *)
(* An object is the sequence of its <<key, value>> entries in key order; a *)
(* key is the tuple of its characters.  A value is a record tagged by t:   *)
(* string (str), number (num), null, object (entries), array (items).      *)
(*   redact: called   redactSensitiveData has been applied                 *)
(*           input    its argument                                         *)
(*           output   the object it returned                               *)
(***************************************************************************)

UpperCase == <<"A", "B", "C", "D", "E", "F", "G", "H", "I", "J", "K", "L", "M", "N", "O", "P", "Q", "R", "S", "T", "U", "V", "W", "X", "Y", "Z">>

LowerCase == <<"a", "b", "c", "d", "e", "f", "g", "h", "i", "j", "k", "l", "m", "n", "o", "p", "q", "r", "s", "t", "u", "v", "w", "x", "y", "z">>

\* String.prototype.toLowerCase, one character
ToLowerChar(c) ==
    IF \E i \in DOMAIN UpperCase : UpperCase[i] = c
    THEN LowerCase[CHOOSE i \in DOMAIN UpperCase : UpperCase[i] = c]
    ELSE c

\* String.prototype.toLowerCase
ToLowerCase(str) == [i \in DOMAIN str |-> ToLowerChar(str[i])]

\* String.prototype.includes
Includes(str, sub) ==
    \E i \in 0..(Len(str) - Len(sub)) : SubSeq(str, i + 1, i + Len(sub)) = sub

\* the sensitiveKeys array of redactSensitiveData
SensitiveKeys ==
    {<<"a", "p", "i", "K", "e", "y">>,
     <<"a", "p", "i", "_", "k", "e", "y">>,
     <<"a", "p", "i", "k", "e", "y">>,
     <<"p", "r", "i", "v", "a", "t", "e", "K", "e", "y">>,
     <<"p", "r", "i", "v", "a", "t", "e", "_", "k", "e", "y">>,
     <<"p", "r", "i", "v", "a", "t", "e", "k", "e", "y">>,
     <<"o", "p", "e", "r", "a", "t", "o", "r", "K", "e", "y">>,
     <<"o", "p", "e", "r", "a", "t", "o", "r", "_", "k", "e", "y">>,
     <<"p", "a", "s", "s", "w", "o", "r", "d">>,
     <<"s", "e", "c", "r", "e", "t">>,
     <<"t", "o", "k", "e", "n">>,
     <<"a", "u", "t", "h", "o", "r", "i", "z", "a", "t", "i", "o", "n">>,
     <<"a", "u", "t", "h">>}

\* the key names the documentation lists as redacted
DocumentedSensitiveKeys ==
    {<<"a", "p", "i", "K", "e", "y">>,
     <<"p", "r", "i", "v", "a", "t", "e", "K", "e", "y">>,
     <<"o", "p", "e", "r", "a", "t", "o", "r", "K", "e", "y">>,
     <<"p", "a", "s", "s", "w", "o", "r", "d">>,
     <<"s", "e", "c", "r", "e", "t">>,
     <<"t", "o", "k", "e", "n">>,
     <<"a", "u", "t", "h", "o", "r", "i", "z", "a", "t", "i", "o", "n">>,
     <<"a", "u", "t", "h">>}

Redacted == [t |-> "string", str |-> "[REDACTED]"]

\* sensitiveKeys.some(sk => key.toLowerCase().includes(sk))
IsSensitive(key) == \E sk \in SensitiveKeys : Includes(ToLowerCase(key), sk)

RECURSIVE RedactSensitiveData(_)
RedactSensitiveData(obj) ==
    [i \in DOMAIN obj |->
        LET key == obj[i][1]
            value == obj[i][2]
        IN  IF IsSensitive(key) THEN <<key, Redacted>>
            ELSE IF value.t = "object"
                 THEN <<key, [t |-> "object", entries |-> RedactSensitiveData(value.entries)]>>
                 ELSE <<key, value>>]

\* keys of the objects passed in
RedactKeys ==
    {<<"a", "p", "i", "K", "e", "y">>,
     <<"a", "p", "i", "_", "k", "e", "y">>,
     <<"A", "P", "I", "K", "E", "Y">>,
     <<"p", "r", "i", "v", "a", "t", "e", "K", "e", "y">>,
     <<"o", "p", "e", "r", "a", "t", "o", "r", "K", "e", "y">>,
     <<"o", "p", "e", "r", "a", "t", "o", "r", "_", "k", "e", "y">>,
     <<"h", "e", "d", "e", "r", "a", "O", "p", "e", "r", "a", "t", "o", "r", "K", "e", "y">>,
     <<"u", "s", "e", "r", "P", "a", "s", "s", "w", "o", "r", "d">>,
     <<"c", "l", "i", "e", "n", "t", "S", "e", "c", "r", "e", "t">>,
     <<"a", "c", "c", "e", "s", "s", "T", "o", "k", "e", "n">>,
     <<"A", "u", "t", "h", "o", "r", "i", "z", "a", "t", "i", "o", "n">>,
     <<"a", "u", "t", "h", "o", "r">>,
     <<"u", "s", "e", "r", "I", "d">>,
     <<"n", "a", "m", "e">>,
     <<"k", "e", "y">>}

StringValue == [t |-> "string", str |-> "v"]

\* values that are not plain objects
RedactLeaves ==
    {StringValue,
     [t |-> "number", num |-> 123],
     [t |-> "null"],
     [t |-> "array", items |-> <<[t |-> "object",
                                  entries |-> <<<<<<"p", "a", "s", "s", "w", "o", "r", "d">>, StringValue>>>>]>>]}

\* one-entry objects holding a leaf or a one-entry object
RedactNested ==
    {[t |-> "object", entries |-> <<<<k, StringValue>>>>] : k \in RedactKeys}

\* the arguments: one-entry objects, and the example of the documentation
RedactInputs ==
    {<<<<k, v>>>> : k \in RedactKeys, v \in RedactLeaves \cup RedactNested}
    \cup {<<<<<<"a", "p", "i", "K", "e", "y">>, [t |-> "string", str |-> "secret123"]>>,
            <<<<"o", "p", "e", "r", "a", "t", "o", "r", "K", "e", "y">>, [t |-> "string", str |-> "private"]>>,
            <<<<"u", "s", "e", "r", "I", "d">>, [t |-> "string", str |-> "123"]>>>>}

NoRedaction == [called |-> FALSE, input |-> <<>>, output |-> <<>>]

\* redactSensitiveData(obj)
Redact(obj) ==
    /\ obj \in RedactInputs
    /\ redact' = [called |-> TRUE, input |-> obj, output |-> RedactSensitiveData(obj)]
    /\ UNCHANGED <<httpVars, opWait, hts, hcs, sdk, sanitized, validated, rateVars, walletVars>>

NextRedact == \E obj \in RedactInputs : Redact(obj)

(***************************************************************************)
(* sanitizeEventData                                                       *)
(* Objects and values are written as for redactSensitiveData; a string     *)
(* value is the tuple of its characters.                                   *)
(*   sanitized: applied  calls made, each on the output of the one before  *)
(*              input    the argument of the last call                     *)
(*              output   the object it returned                            *)
(***************************************************************************)

\* value.replace(/[\x00-\x1F\x7F]/g, '')
StripControl(str) == SelectSeq(str, LAMBDA ch : ch \notin ControlChars)

RECURSIVE SanitizeEventData(_)
\* sanitizeEventData(data): strings are stripped, plain objects are visited,
\* everything else (arrays, numbers, null) is copied
SanitizeEventData(data) ==
    [i \in DOMAIN data |->
        LET key == data[i][1]
            value == data[i][2]
        IN  IF value.t = "string"
            THEN <<key, [t |-> "string", str |-> StripControl(value.str)]>>
            ELSE IF value.t = "object"
                 THEN <<key, [t |-> "object", entries |-> SanitizeEventData(value.entries)]>>
                 ELSE <<key, value>>]

\* the string values of event data
SanitizeStrings == {[t |-> "string", str |-> v] : v \in EventStrings}

\* values that are not plain objects: strings, a number, null, an array of
\* strings and an array holding an object
SanitizeLeaves ==
    SanitizeStrings
    \cup {[t |-> "number", num |-> 123],
          [t |-> "null"],
          [t |-> "array", items |-> <<[t |-> "string", str |-> <<"o", "k">>]>>],
          [t |-> "array", items |-> <<[t |-> "string", str |-> <<"a", "<LF>", "b">>]>>],
          [t |-> "array",
           items |-> <<[t |-> "object",
                        entries |-> <<<<"note", [t |-> "string", str |-> <<"<NUL>", "a">>]>>>>]>>]}

\* objects one and two levels deep
SanitizeNested ==
    {[t |-> "object", entries |-> <<<<"note", v>>>>] : v \in SanitizeLeaves}
    \cup {[t |-> "object",
           entries |-> <<<<"note", [t |-> "object", entries |-> <<<<"name", v>>>>]>>>>] :
             v \in SanitizeStrings}

\* the arguments: objects of one entry, and the example of the documentation
SanitizeInputs ==
    {<<<<k, v>>>> : k \in {"name", "userId"}, v \in SanitizeLeaves \cup SanitizeNested}
    \cup {<<<<"userId", [t |-> "string", str |-> <<"1", "2", "3", "<NUL>">>]>>,
            <<"name", [t |-> "string", str |-> <<"T", "e", "s", "t", "<LF>", "<LF>">>]>>>>}

NoSanitizing == [applied |-> 0, input |-> <<>>, output |-> <<>>]

\* sanitizeEventData(data)
Sanitize(data) ==
    /\ data \in SanitizeInputs
    /\ sanitized' = [applied |-> 1, input |-> data, output |-> SanitizeEventData(data)]
    /\ UNCHANGED <<httpVars, opWait, hts, hcs, sdk, redact, validated, rateVars, walletVars>>

\* sanitizeEventData applied to the object the last call returned
SanitizeAgain ==
    /\ sanitized.applied = 1
    /\ sanitized' = [applied |-> sanitized.applied + 1, input |-> sanitized.output,
                     output |-> SanitizeEventData(sanitized.output)]
    /\ UNCHANGED <<httpVars, opWait, hts, hcs, sdk, redact, validated, rateVars, walletVars>>

NextSanitize ==
    \/ \E data \in SanitizeInputs : Sanitize(data)
    \/ SanitizeAgain

(***************************************************************************)
(* The id validators                                                       *)
(*   validated: called   the validators have been applied                  *)
(*              input    the string passed to all four                     *)
(*              account, token, topic, wallet   what each returned         *)
(* <LF> is a line feed, <ARABIC3> the digit U+0663.                        *)
(***************************************************************************)

\* strings put to the validators: a prefix, a realm part, a number part and
\* a suffix, each well-formed or not; and the strings of the test
IdPrefixes == {<<>>, <<" ">>, <<"0">>, <<"x">>}
IdRealms ==
    {<<"0", ".", "0", ".">>, <<"0", ".", "0">>, <<"0", "x", "0", ".">>,
     <<"1", ".", "0", ".">>, <<"0", ".", "0", ".", ".">>, <<"0", ".", "1", ".">>}
IdNumbers ==
    {<<>>, <<"1">>, <<"0">>, <<"1", "2", "3", "4", "5", "6">>, <<"1", "2", "a">>,
     <<"-", "1">>, <<"1", ".", "5">>, <<"<ARABIC3>">>}
IdSuffixes == {<<>>, <<"<LF>">>, <<" ">>, <<"x">>}

IdStrings ==
    {p \o r \o n \o t : p \in IdPrefixes, r \in IdRealms, n \in IdNumbers, t \in IdSuffixes}
    \cup {<<>>, <<"i", "n", "v", "a", "l", "i", "d", "-", "a", "c", "c", "o", "u", "n", "t">>}

NoValidation ==
    [called |-> FALSE, input |-> <<>>, account |-> FALSE, token |-> FALSE,
     topic |-> FALSE, wallet |-> FALSE]

\* the four validators applied to one string
Validate(s) ==
    /\ s \in IdStrings
    /\ validated' = [called |-> TRUE, input |-> s,
                     account |-> IsValidAccountId(s), token |-> IsValidTokenId(s),
                     topic |-> IsValidTopicId(s), wallet |-> WalletIsValidAccountId(s)]
    /\ UNCHANGED <<httpVars, opWait, hts, hcs, sdk, redact, sanitized, rateVars, walletVars>>

NextIds == \E s \in IdStrings : Validate(s)

(***************************************************************************)
(* CoinFantasyHederaSDK                                                    *)
(*   sdk: the sequence of the calls made, each with                        *)
(*        op        the method called                                      *)
(*        request   the request it issued through the client               *)
(*        pc        awaiting | fulfilled | rejected                        *)
(*        caught    a catch block of the method took the failure           *)
(***************************************************************************)

\* the methods that pass the client's promise on
SdkQueries == {"getOperationStatus", "getGatewayHealth", "getGatewayMetrics"}

\* no method of the facade has been called
NoSdkCall == <<>>

\* getOperationStatus / getGatewayHealth / getGatewayMetrics up to
\* `await this.client.get(...)`
SdkQuery(op) ==
    /\ op \in SdkQueries
    /\ \E r \in Reqs : req[r].pc = "idle"
    /\ IssueBody(FreeRequest)
    /\ sdk' = Append(sdk, [op |-> op, request |-> FreeRequest, pc |-> "awaiting",
                           caught |-> FALSE])
    /\ UNCHANGED <<retryOptions, env, opWait, hts, hcs, utilVars, rateVars, walletVars>>

\* initialize() up to its await: this.wallet.restoreConnection(), then the
\* health request starts inside the try block.  restoreConnection() is
\* called before the try block: when it throws, initialize() rejects and no
\* request is made (request 0)
Initialize(got, removed) ==
    /\ got \in GetItemOutcomes
    /\ removed \in RemoveItemOutcomes
    /\ RestoreEffect(got, removed)
    /\ IF RestoreThrows(got, removed)
       THEN /\ Len(sdk) < NumReq
            /\ sdk' = Append(sdk, [op |-> "initialize", request |-> 0,
                                   pc |-> "rejected", caught |-> FALSE])
            /\ UNCHANGED <<req, logs>>
       ELSE /\ \E r \in Reqs : req[r].pc = "idle"
            /\ IssueBody(FreeRequest)
            /\ sdk' = Append(sdk, [op |-> "initialize", request |-> FreeRequest,
                                   pc |-> "awaiting", caught |-> FALSE])
    /\ flow' = "other"
    /\ UNCHANGED peer
    /\ UNCHANGED afterDisconnect
    /\ UNCHANGED wait
    /\ UNCHANGED <<retryOptions, env, opWait, hts, hcs, utilVars, rateVars,
                   hasWindow, hashpack, adapter, wcProvider, calls>>

\* every method with a catch block around its request
SdkSettlesCatchingAll(c) ==
    /\ c \in DOMAIN sdk
    /\ sdk[c].pc = "awaiting"
    /\ req[sdk[c].request].pc \in {"resolved", "rejected"}
    /\ sdk' = [sdk EXCEPT ![c].pc = "fulfilled",
                          ![c].caught = CallThrows(sdk[c].request)]
    /\ UNCHANGED <<httpVars, opWait, hts, hcs, utilVars, rateVars, walletVars>>

\* the client's promise of call c settles.  A query reads its property of the body and
\* returns it (undefined when the body has none), or rethrows.  The try
\* block of initialize() holds getGatewayHealth() and the read of
\* health.status: its catch takes the failure of the request and the
\* TypeError of a body that is null or has no `health`, warns, and
\* initialize() returns
SdkSettles(c) ==
    /\ c \in DOMAIN sdk
    /\ sdk[c].pc = "awaiting"
    /\ req[sdk[c].request].pc \in {"resolved", "rejected"}
    /\ sdk' = IF sdk[c].op = "initialize"
              THEN [sdk EXCEPT
                       ![c].pc = "fulfilled",
                       ![c].caught = \/ CallThrows(sdk[c].request)
                                     \/ ~HasProperty(req[sdk[c].request].result.data)]
              ELSE [sdk EXCEPT ![c].pc = IF CallThrows(sdk[c].request)
                                         THEN "rejected" ELSE "fulfilled"]
    /\ UNCHANGED <<httpVars, opWait, hts, hcs, utilVars, rateVars, walletVars>>

\* waitForOperation() has not been called
\*   pc            idle | polling | sleeping | returned | thrown
\*   pollInterval  options.pollInterval || 2000
\*   timeout       options.timeout || 60000
\*   clock         Date.now() - startTime
\*   polled        getOperationStatus has been called
\*   polledAt      clock reading when the latest getOperationStatus was called
\*   request       the request the latest getOperationStatus issued (0: none)
\*   wakeAt        when the pending setTimeout is due
\*   result        the status returned (none before)
\*   error         what was thrown (none before)
IdleOpWait ==
    [pc |-> "idle", pollInterval |-> 0, timeout |-> 0, clock |-> 0, polled |-> FALSE,
     polledAt |-> Never, request |-> 0, wakeAt |-> 0, result |-> "none", error |-> "none"]

DefaultPollInterval == 2000
DefaultOpTimeout == 60000

\* the options waitForOperation is called with: none, zero, a short interval,
\* a short and a negative timeout
OpWaitOptions ==
    [pollInterval : {UndefNum, 0, 1000}, timeout : {UndefNum, 0, 3000, 0 - 1000}]

\* the clock is read in steps of one second; a getOperationStatus call takes
\* at most OpMaxLatency steps
OpClockStep == 1000
OpMaxLatency == 2

\* a test that takes COMPLETED alone for final
IsFinalCompletedOnly(state) == state = "COMPLETED"

\* status.status === 'COMPLETED' || status.status === 'FAILED'
IsFinal(state) == state = "COMPLETED" \/ state = "FAILED"

\* the loop of waitForOperation from its condition on, up to the next await or
\* the throw after the loop: getOperationStatus sends its request through the
\* client (as many requests as the client has records for)
OpLoop(w) ==
    IF w.clock < w.timeout
    THEN /\ \E r \in Reqs : req[r].pc = "idle"
         /\ IssueBody(FreeRequest)
         /\ opWait' = [w EXCEPT !.pc = "polling", !.polled = TRUE, !.polledAt = w.clock,
                                !.request = FreeRequest]
    ELSE /\ opWait' = [w EXCEPT !.pc = "thrown", !.error = "timed out"]
         /\ UNCHANGED <<req, logs>>

\* waitForOperation(operationId, options) up to its first await
WaitForOperation(options) ==
    /\ opWait.pc = "idle"
    /\ options \in OpWaitOptions
    /\ OpLoop([opWait EXCEPT
                  !.pollInterval = OrElse(options.pollInterval, DefaultPollInterval),
                  !.timeout = OrElse(options.timeout, DefaultOpTimeout)])
    /\ UNCHANGED <<retryOptions, env, hts, hcs, sdk, utilVars, rateVars, walletVars>>

\* the gateway answers the status request with { operation: { status } }: the
\* client resolves the request, getOperationStatus returns the operation, and
\* the loop returns a final status and starts the sleep before the next poll
\* on any other
StatusArrives(state) ==
    /\ opWait.pc = "polling"
    /\ state \in OperationStates
    /\ ResolveBody(opWait.request, StatusOutcome(state))
    /\ opWait' = IF IsFinal(state)
                 THEN [opWait EXCEPT !.pc = "returned", !.result = state]
                 ELSE [opWait EXCEPT !.pc = "sleeping",
                                     !.wakeAt = opWait.clock + opWait.pollInterval]
    /\ UNCHANGED <<retryOptions, env, logs, hts, hcs, sdk, utilVars, rateVars, walletVars>>

\* the gateway answers with a body that carries no operation: on null
\* getOperationStatus throws a TypeError at `response.operation`, on a body
\* without the property it returns undefined and the loop throws one at
\* `status.status`; waitForOperation rejects with it
StatusMalformed(body) ==
    /\ opWait.pc = "polling"
    /\ body \in StatusBodies \ OperationStates
    /\ ResolveBody(opWait.request, StatusOutcome(body))
    /\ opWait' = [opWait EXCEPT !.pc = "thrown", !.error = "TypeError"]
    /\ UNCHANGED <<retryOptions, env, logs, hts, hcs, sdk, utilVars, rateVars, walletVars>>

\* the failure of an attempt is final for the client
FinalFailure(r, o) ==
    ~ShouldRetry(AxiosErrorOf(o, r, req[r].attempts), RetryCountOf(r))

\* an attempt of the status request fails and the client retries it:
\* getOperationStatus stays pending
StatusRetried(o) ==
    /\ opWait.pc = "polling"
    /\ o \in FailureOutcomes
    /\ ~FinalFailure(opWait.request, o)
    /\ RespondFailure(opWait.request, o)

\* the status request fails for good: the client rejects it,
\* getOperationStatus rejects, the await rethrows and waitForOperation
\* rejects with the same error
StatusFails(o) ==
    /\ opWait.pc = "polling"
    /\ o \in FailureOutcomes
    /\ FinalFailure(opWait.request, o)
    /\ FailBody(opWait.request, o)
    /\ opWait' = [opWait EXCEPT !.pc = "thrown", !.error = "request failed"]
    /\ UNCHANGED <<retryOptions, env, hts, hcs, sdk, utilVars, rateVars, walletVars>>

\* the pollInterval timer fires, when due or later, and the loop goes on
OpTimerFires ==
    /\ opWait.pc = "sleeping"
    /\ opWait.clock >= opWait.wakeAt
    /\ OpLoop(opWait)
    /\ UNCHANGED <<retryOptions, env, hts, hcs, sdk, utilVars, rateVars, walletVars>>

\* time passes while waitForOperation is suspended; a timer is late by one
\* step at most
OpTick ==
    /\ \/ opWait.pc = "polling"
          /\ opWait.clock - opWait.polledAt < OpMaxLatency * OpClockStep
       \/ opWait.pc = "sleeping"
          /\ opWait.clock <= opWait.wakeAt
    /\ opWait' = [opWait EXCEPT !.clock = @ + OpClockStep]
    /\ UNCHANGED <<httpVars, hts, hcs, sdk, utilVars, rateVars, walletVars>>

\* the attempt in flight of a status request ends in one way or another
StatusSettles ==
    \/ \E state \in OperationStates : StatusArrives(state)
    \/ \E body \in StatusBodies \ OperationStates : StatusMalformed(body)
    \/ \E o \in FailureOutcomes : StatusFails(o)
    \/ \E o \in FailureOutcomes : StatusRetried(o)

\* the backoff timer of a status request fires
StatusRetryFires == \E r \in Reqs : RetryTimerFires(r)

NextOpWait ==
    \/ \E options \in OpWaitOptions : WaitForOperation(options)
    \/ \E state \in OperationStates : StatusArrives(state)
    \/ \E body \in StatusBodies \ OperationStates : StatusMalformed(body)
    \/ \E o \in FailureOutcomes : StatusFails(o)
    \/ \E o \in FailureOutcomes : StatusRetried(o)
    \/ \E r \in Reqs : RetryTimerFires(r)
    \/ OpTimerFires
    \/ OpTick

\* CoinFantasyHederaSDK.cleanup(): this.wallet.disconnect() is called and its
\* promise dropped; the step ends where disconnect() first suspends
Cleanup == \E calleeOk \in BOOLEAN : \E removed \in BOOLEAN : ManagerDisconnect(calleeOk, removed)

\* the failures the gateway gives the facade: a client error, which is not
\* retried, and a server error, which is
SdkFailureOutcomes == {o \in FailureOutcomes : o.status \in {404, 503}}

\* the calls of the facade on record: those made through the client, and the
\* operations of its WalletManager that have been called
SdkCallsOnRecord ==
    Len(sdk) + Len(hcs) + Len(hts) + Cardinality({op \in Ops : calls[op] # NoCall})

\* the caller makes a further call while fewer than MaxSdkCalls are on record
SdkCallsLeft == SdkCallsOnRecord < MaxSdkCalls

\* the SDK facade, its managers and its WalletManager on one client
NextSdk ==
    \/ SdkCallsLeft /\ \E op \in SdkQueries : SdkQuery(op)
    \/ SdkCallsLeft /\ \E got \in BOOLEAN : \E removed \in BOOLEAN : Initialize(got, removed)
    \/ SdkCallsLeft /\ PublishEvent(TestEventData)
    \/ SdkCallsLeft /\ GetTokenInfo(Acc123)
    \/ SdkCallsLeft /\ Cleanup
    \/ SdkCallsLeft /\ \E got \in BOOLEAN : \E removed \in BOOLEAN : ManagerInit(got, removed)
    \/ SdkCallsLeft /\ ManagerConnect
    \/ SdkCallsLeft /\ ManagerRequestTransaction
    \/ \E c \in DOMAIN sdk : SdkSettles(c)
    \/ \E c \in DOMAIN hcs : HcsSettles(c)
    \/ \E c \in DOMAIN hts : HtsSettles(c)
    \/ \E r \in Reqs : \E o \in SuccessOutcomes : RespondSuccess(r, o)
    \/ \E r \in Reqs : \E o \in SdkFailureOutcomes : RespondFailure(r, o)
    \/ \E r \in Reqs : RetryTimerFires(r)
    \/ \E outcome \in WcInitOutcomes : WcInitSettles(outcome)
    \/ \E got \in BOOLEAN : \E removed \in BOOLEAN : InitResumes(got, removed)
    \/ ProviderRejects
    \/ \E session \in WcSessions : \E stored \in BOOLEAN : WcResolves(session, stored)
    \/ ConnectResumes
    \/ \E ok \in BOOLEAN : RequestTransactionSettles(ok)
    \/ \E providerOk \in BOOLEAN : \E removed \in BOOLEAN : WcDisconnectSettles(providerOk, removed)
    \/ DisconnectResumes

\* no manager and no utility has been called
MgrUnused ==
    /\ hts = NoHtsCall /\ hcs = NoHcsCall /\ sdk = NoSdkCall
    /\ opWait = IdleOpWait
    /\ redact = NoRedaction /\ sanitized = NoSanitizing /\ validated = NoValidation

(***************************************************************************)
(* RateLimiter                                                             *)
(***************************************************************************)

\* largest maxRequests and windowMs a limiter is constructed with, the number
\* of acquire() callers, and the last instant of the clock
MaxRequestsCfg == 2
MaxWindowCfg == 3
NumCallers == 2
MaxTime == 4

\* reset() calls made in one run
MaxResets == 1

Callers == 1..NumCallers

LimiterConfigs ==
    [maxRequests : 0..MaxRequestsCfg, windowMs : 1..MaxWindowCfg]

IdleCaller == [pc |-> "idle", wakeAt |-> 0, waits |-> 0]

\* no clock reading
NoTime == -1

\* a caller that has made no acquire() call yet:
\*   returned    acquire() calls that have returned
\*   firstGrant  clock reading when the first call returned
\*   overAt      clock reading when call maxRequests + 1 returned
\*   earlyWait   one of the first maxRequests calls was suspended
NoSequence ==
    [returned |-> 0, firstGrant |-> NoTime, overAt |-> NoTime, earlyWait |-> FALSE]

\* no acquire() has run since a reset():
\*   calls      executions of acquire() since the last reset(), counted up to
\*              maxRequests
\*   suspended  one of those executions was suspended
NoneSinceReset == [calls |-> 0, suspended |-> FALSE]

\* the limiter is constructed but nobody uses it
RateUnused ==
    /\ limiter = [maxRequests |-> 1, windowMs |-> 1]
    /\ requests = <<>>
    /\ now = 0
    /\ acq = [c \in Callers |-> IdleCaller]
    /\ grants = <<>>
    /\ resets = 0
    /\ sinceReset = NoneSinceReset
    /\ seq = NoSequence

\* new RateLimiter(maxRequests, windowMs)
InitRate ==
    /\ limiter \in LimiterConfigs
    /\ requests = <<>>
    /\ now = 0
    /\ acq = [c \in Callers |-> IdleCaller]
    /\ grants = <<>>
    /\ resets = 0
    /\ sinceReset = NoneSinceReset
    /\ seq = NoSequence

\* the filter comparing against half the window
PruneHalfWindow(list, t) ==
    SelectSeq(list, LAMBDA time : t - time < limiter.windowMs \div 2)

\* the filter that keeps every entry
PruneKeepsAll(list, t) == list

\* this.requests.filter(time => now - time < this.windowMs)
Prune(list, t) ==
    SelectSeq(list, LAMBDA time : t - time < limiter.windowMs)

\* the capacity test with `>` written for `>=`
AtCapacityOffByOne(list) == Len(list) > limiter.maxRequests

\* this.requests.length >= this.maxRequests
AtCapacity(list) == Len(list) >= limiter.maxRequests

\* this.windowMs - (now - oldestRequest); with an empty list oldestRequest is
\* undefined, the difference is NaN and setTimeout fires without delay
WaitTime(list, t) ==
    IF list = <<>> THEN 0 ELSE limiter.windowMs - (t - list[1])

\* the synchronous body of acquire(): prune, then either suspend on the timer
\* or record the grant and return
AcquireBody(c, waited) ==
    LET kept == Prune(requests, now)
    IN  /\ IF AtCapacity(kept)
           THEN /\ requests' = kept
                /\ acq' = [acq EXCEPT ![c].pc = "waiting",
                                      ![c].wakeAt = now + WaitTime(kept, now),
                                      ![c].waits = 1]
                /\ UNCHANGED grants
           ELSE /\ requests' = Append(kept, now)
                /\ grants' = Append(grants, now)
                /\ acq' = [acq EXCEPT ![c].pc = "idle", ![c].wakeAt = 0,
                                      ![c].waits = waited]
        /\ sinceReset' =
              IF resets > 0 /\ sinceReset.calls < limiter.maxRequests
              THEN [calls |-> sinceReset.calls + 1,
                    suspended |-> sinceReset.suspended \/ AtCapacity(kept)]
              ELSE sinceReset

\* a caller calls acquire()
Acquire(c) ==
    /\ acq[c].pc = "idle"
    /\ AcquireBody(c, 0)
    /\ UNCHANGED <<limiter, now, resets, seq, httpVars, walletVars, mgrVars>>

\* the timer of a suspended acquire() fires, at its due time or later, and the
\* call recurses into acquire()
TimerFires(c) ==
    /\ acq[c].pc = "waiting"
    /\ now >= acq[c].wakeAt
    /\ AcquireBody(c, 1)
    /\ UNCHANGED <<limiter, now, resets, seq, httpVars, walletVars, mgrVars>>

\* a reset() that leaves the list as it is
ResetKeepsRequests ==
    /\ resets < MaxResets
    /\ requests' = requests
    /\ resets' = resets + 1
    /\ sinceReset' = NoneSinceReset
    /\ UNCHANGED <<limiter, now, acq, grants, seq, httpVars, walletVars, mgrVars>>

\* reset()
Reset ==
    /\ resets < MaxResets
    /\ requests' = <<>>
    /\ resets' = resets + 1
    /\ sinceReset' = NoneSinceReset
    /\ UNCHANGED <<limiter, now, acq, grants, seq, httpVars, walletVars, mgrVars>>

\* reset() has been called
WasReset == resets > 0

\* a timestamp seen one millisecond later from a clock whose reading stays
\* the same; a timestamp at 0 is at least MaxTime old and stays at 0
Earlier(time) == IF time > 0 THEN time - 1 ELSE 0

\* the clock advances by one millisecond; grants that leave the trailing
\* window (now - windowMs, now] are dropped from the record of grants.
\* The limiter only ever uses differences of clock readings: once the reading
\* is MaxTime, time goes on by moving every recorded timestamp back instead.
Tick ==
    /\ IF now < MaxTime
       THEN /\ now' = now + 1
            /\ grants' = SelectSeq(grants, LAMBDA g : now + 1 - limiter.windowMs < g)
            /\ UNCHANGED <<requests, acq>>
       ELSE /\ now' = now
            /\ requests' = [i \in DOMAIN requests |-> Earlier(requests[i])]
            /\ acq' = [c \in Callers |-> [acq[c] EXCEPT !.wakeAt = Earlier(@)]]
            /\ grants' = SelectSeq([i \in DOMAIN grants |-> grants[i] - 1],
                                   LAMBDA g : now - limiter.windowMs < g)
    /\ UNCHANGED <<limiter, resets, sinceReset, seq, httpVars, walletVars, mgrVars>>

NextRate ==
    \/ \E c \in Callers : Acquire(c)
    \/ \E c \in Callers : TimerFires(c)
    \/ Reset
    \/ Tick

\* the limiter alone; the API client is constructed and unused
HttpUnused ==
    /\ retryOptions = DefaultRetryOptions
    /\ req = [r \in Reqs |-> IdleRequest]
    /\ env = ProductionEnv
    /\ logs = 0
    /\ MgrUnused

\* the API client alone; the limiter is constructed and unused
HttpOnlyInit == InitHttp /\ MgrUnused /\ RateUnused /\ WalletUnused

\* nothing but the utility functions is used
SanitizeOnlyInit == HttpUnused /\ MgrUnused /\ RateUnused /\ WalletUnused

SpecSanitize == SanitizeOnlyInit /\ [][NextSanitize]_vars

\* a page with HashPack injected and nothing stored; the first manager holds
\* a HashConnectAdapter, the second the stub
SessionsInit ==
    /\ HttpUnused
    /\ RateUnused
    /\ hasWindow = TRUE
    /\ hashpack \in {hp \in HashPackObjects : Callable(hp, "disconnect")}
    /\ slot = NoItem
    /\ adapter = "hashconnect"
    /\ wcProvider = FALSE
    /\ connectionInfo = NullInfo
    /\ calls = [op \in Ops |-> NoCall]
    /\ flow = "other"
    /\ peer = NullInfo
    /\ afterDisconnect = "none"
    /\ wait = IdleWait

SpecSessions == SessionsInit /\ [][NextSessions]_vars

\* a HashConnectAdapter on its own, in a browser or not, before or after the
\* extension has injected window.hashpack
PollInit ==
    /\ HttpUnused
    /\ RateUnused
    /\ hasWindow \in BOOLEAN
    /\ hashpack \in (IF hasWindow THEN {NoHashPack} \cup HashPackObjects ELSE {NoHashPack})
    /\ slot = NoItem
    /\ adapter = "hashconnect"
    /\ wcProvider = FALSE
    /\ connectionInfo = NullInfo
    /\ calls = [op \in Ops |-> NoCall]
    /\ flow = "other"
    /\ peer = NullInfo
    /\ afterDisconnect = "untracked"
    /\ wait = [IdleWait EXCEPT !.injectedAt = IF hashpack.present THEN 0 ELSE Never]

\* timers fire and time passes
SpecPoll ==
    PollInit /\ [][NextPoll]_vars /\ WF_vars(PollTimerFires) /\ WF_vars(PollTick)

SpecIds == SanitizeOnlyInit /\ [][NextIds]_vars

\* the facade alone on a client with retryOptions { maxRetries: 1 }; every
\* attempt in flight ends, timers fire and time passes
OpWaitInit ==
    /\ retryOptions = MergeRetryOptions({<<"maxRetries", 1>>})
    /\ req = [r \in Reqs |-> IdleRequest]
    /\ env = ProductionEnv
    /\ logs = 0
    /\ MgrUnused
    /\ RateUnused
    /\ WalletUnused

SpecOpWait ==
    /\ OpWaitInit /\ [][NextOpWait]_vars
    /\ WF_vars(StatusSettles) /\ WF_vars(StatusRetryFires)
    /\ WF_vars(OpTimerFires) /\ WF_vars(OpTick)

SpecHttp == HttpOnlyInit /\ [][NextHttp]_vars

\* retryOptions that vary the backoff: a growing, a vanishing and a negative
\* progression, with and without a ceiling below the products;
\* all but the defaults allow two retries
BackoffOptions ==
    {{}}
    \cup {u \cup {<<"maxRetries", 2>>} :
            u \in {{<<"baseDelay", 500>>, <<"exponentialBase", 3>>, <<"maxDelay", 1000>>},
                   {<<"baseDelay", 20000>>, <<"maxDelay", UndefNum>>},
                   {<<"baseDelay", UndefNum>>, <<"exponentialBase", 0>>},
                   {<<"baseDelay", 0 - 1000>>},
                   {<<"baseDelay", 250>>, <<"exponentialBase", 0 - 2>>, <<"maxDelay", 400>>}}}

\* the API client built with each of the backoff options, in production
BackoffInit ==
    /\ retryOptions \in {MergeRetryOptions(u) : u \in BackoffOptions}
    /\ req = [r \in Reqs |-> IdleRequest]
    /\ env = ProductionEnv
    /\ logs = 0
    /\ MgrUnused
    /\ RateUnused
    /\ WalletUnused

SpecBackoff == BackoffInit /\ [][NextHttp]_vars

\* the API client built with retryOptions { maxRetries: 2 } under every
\* environment
HttpLogInit ==
    /\ retryOptions = MergeRetryOptions({<<"maxRetries", 2>>})
    /\ req = [r \in Reqs |-> IdleRequest]
    /\ env \in Envs
    /\ logs = 0
    /\ MgrUnused
    /\ RateUnused
    /\ WalletUnused

SpecHttpLog == HttpLogInit /\ [][NextHttp]_vars

\* new APIClient(config) with retryOptions { maxRetries: 0 }: the client
\* rejects a request at its first failure
NoRetryInit ==
    /\ retryOptions = MergeRetryOptions({<<"maxRetries", 0>>})
    /\ req = [r \in Reqs |-> IdleRequest]
    /\ env = ProductionEnv
    /\ logs = 0
    /\ MgrUnused
    /\ RateUnused
    /\ WalletUnused

SpecHts == NoRetryInit /\ [][NextHts]_vars

SpecHcs == NoRetryInit /\ [][NextHcs]_vars

\* new CoinFantasyHederaSDK(config) with retryOptions { maxRetries: 1 }; its
\* WalletManager is built without adapter argument (a WalletConnectAdapter
\* when WALLETCONNECT_PROJECT_ID is set, else the stub), in a browser that
\* holds a stored record, or outside one
SdkInit ==
    /\ retryOptions = MergeRetryOptions({<<"maxRetries", 1>>})
    /\ req = [r \in Reqs |-> IdleRequest]
    /\ env = ProductionEnv
    /\ logs = 0
    /\ MgrUnused
    /\ RateUnused
    /\ hasWindow \in BOOLEAN
    /\ hashpack = NoHashPack
    /\ slot = IF hasWindow THEN Stringify(Info(Acc123, <<"testnet">>, <<"pk">>))
              ELSE NoItem
    /\ adapter \in DefaultAdapterKinds
    /\ wcProvider = FALSE
    /\ connectionInfo = NullInfo
    /\ calls = [op \in Ops |-> NoCall]
    /\ flow = "other"
    /\ peer = NullInfo
    /\ afterDisconnect = "untracked"
    /\ wait = IdleWait

SpecSdk == SdkInit /\ [][NextSdk]_vars

\* redactSensitiveData on its own
RedactOnlyInit == HttpUnused /\ RateUnused /\ WalletUnused

SpecRedact == RedactOnlyInit /\ [][NextRedact]_vars

RateOnlyInit == InitRate /\ HttpUnused /\ WalletUnused

\* the wallet manager alone
WalletOnlyInit == InitWallet /\ HttpUnused /\ RateUnused

\* a browser page with nothing stored, with or without HashPack injected;
\* the first manager holds one of the built-in adapters, the second manager
\* has not run its init()
RoundTripInit ==
    /\ HttpUnused
    /\ RateUnused
    /\ hasWindow = TRUE
    /\ hashpack \in HashPackObjects
    /\ slot = NoItem
    /\ adapter \in {"hashconnect", "walletconnect"}
    /\ wcProvider = FALSE
    /\ connectionInfo = NullInfo
    /\ calls = [op \in Ops |-> NoCall]
    /\ flow = "other"
    /\ peer = NullInfo
    /\ afterDisconnect = "untracked"
    /\ wait = [IdleWait EXCEPT !.injectedAt = 0]

\* init() and connect() on the first manager, init() on the second
NextRoundTrip ==
    \/ \E got \in BOOLEAN : \E removed \in BOOLEAN : ManagerInit(got, removed)
    \/ \E outcome \in WcInitOutcomes : WcInitSettles(outcome)
    \/ \E got \in BOOLEAN : \E removed \in BOOLEAN : InitResumes(got, removed)
    \/ ManagerConnect
    \/ \E found \in BOOLEAN : HashConnectWaitSettles(found)
    \/ ProviderRejects
    \/ \E result \in HashPackResults : \E stored \in BOOLEAN : HashPackResolves(result, stored)
    \/ \E session \in WcSessions : \E stored \in BOOLEAN : WcResolves(session, stored)
    \/ ConnectResumes
    \/ \E got \in BOOLEAN : \E removed \in BOOLEAN : PeerRestoreConnection(got, removed)

SpecRoundTrip == RoundTripInit /\ [][NextRoundTrip]_vars

SpecWallet == WalletOnlyInit /\ [][NextWallet]_vars

\* a manager with any adapter on a page that has HashPack injected, or
\* outside a browser; nothing is stored
TransactionsInit ==
    /\ HttpUnused
    /\ RateUnused
    /\ hasWindow \in BOOLEAN
    /\ hashpack \in (IF hasWindow THEN HashPackObjects ELSE {NoHashPack})
    /\ slot = NoItem
    /\ adapter \in AdapterKinds
    /\ wcProvider = FALSE
    /\ connectionInfo = NullInfo
    /\ calls = [op \in Ops |-> NoCall]
    /\ flow = "other"
    /\ peer = NullInfo
    /\ afterDisconnect = "untracked"
    /\ wait = [IdleWait EXCEPT !.injectedAt = IF hashpack.present THEN 0 ELSE Never]

SpecTransactions == TransactionsInit /\ [][NextTransactions]_vars

SpecRate == RateOnlyInit /\ [][NextRate]_vars

(***************************************************************************)
(* RateLimiter: one caller awaiting each acquire() before the next         *)
(* `for (i = 0; i < 10; i++) await limiter.acquire()`                      *)
(***************************************************************************)

\* the limiter and the number of calls of the documented throttling test
TestMaxRequests == 5
TestWindowMs == 1000
TestCalls == 10

\* the clock readings at which something happens are the multiples of
\* ClockStep up to SeqMaxTime
ClockStep == 250
SeqMaxTime == 2500

SeqCaller == 1

SeqConfigs ==
    [maxRequests : 0..TestMaxRequests, windowMs : {TestWindowMs \div 2, TestWindowMs}]

InitSeq ==
    /\ limiter \in SeqConfigs
    /\ requests = <<>>
    /\ now = 0
    /\ acq = [c \in Callers |-> IdleCaller]
    /\ grants = <<>>
    /\ resets = 0
    /\ sinceReset = NoneSinceReset
    /\ seq = NoSequence

\* what the caller observes in a step of its acquire() call: a suspension, or
\* the return of call number seq.returned + 1
Observed(caller) ==
    IF caller.pc = "waiting"
    THEN [seq EXCEPT !.earlyWait = @ \/ seq.returned < limiter.maxRequests]
    ELSE [seq EXCEPT !.returned = @ + 1,
                     !.firstGrant = IF seq.returned = 0 THEN now ELSE @,
                     !.overAt = IF seq.returned = limiter.maxRequests THEN now ELSE @]

\* the next `await limiter.acquire()` of the loop
SeqAcquire ==
    /\ acq[SeqCaller].pc = "idle"
    /\ seq.returned < TestCalls
    /\ AcquireBody(SeqCaller, 0)
    /\ seq' = Observed(acq'[SeqCaller])
    /\ UNCHANGED <<limiter, now, resets, httpVars, walletVars, mgrVars>>

\* the timer of the suspended call fires and the call recurses into acquire()
SeqTimerFires ==
    /\ acq[SeqCaller].pc = "waiting"
    /\ now >= acq[SeqCaller].wakeAt
    /\ AcquireBody(SeqCaller, 1)
    /\ seq' = Observed(acq'[SeqCaller])
    /\ UNCHANGED <<limiter, now, resets, httpVars, walletVars, mgrVars>>

\* the clock advances
SeqTick ==
    /\ now < SeqMaxTime
    /\ now' = now + ClockStep
    /\ grants' = SelectSeq(grants, LAMBDA g : now + ClockStep - limiter.windowMs < g)
    /\ UNCHANGED <<limiter, requests, acq, resets, sinceReset, seq, httpVars, walletVars,
                   mgrVars>>

NextSeq ==
    \/ SeqAcquire
    \/ SeqTimerFires
    \/ SeqTick

SeqOnlyInit == InitSeq /\ HttpUnused /\ WalletUnused

SpecRateSeq == SeqOnlyInit /\ [][NextSeq]_vars

\* time passes and due timers fire; nothing obliges a caller to call acquire()
RateFairness ==
    /\ WF_vars(Tick)
    /\ \A c \in Callers : WF_vars(TimerFires(c))

SpecRateLive == RateOnlyInit /\ [][NextRate]_vars /\ RateFairness


(***************************************************************************)
(* APIClient: properties                                                   *)
(***************************************************************************)

\* the retry bound in force: this.retryOptions.maxRetries ?? 0
MaxRetriesInForce == Nullish(retryOptions.maxRetries, 0)

\* the retryable failures as the retry policy states them
PolicyRetryable(o) ==
    \/ ~o.hasResponse
    \/ o.code = "ECONNABORTED"
    \/ o.status \in 500..599
    \/ o.status = 429

\* a failed attempt of request r is delivered in this step
FailureDelivered(r) == req'[r].fails = req[r].fails + 1

\* C1: a request is retried at most maxRetries times (default 3), so at most
\* maxRetries + 1 transport attempts are made, and a retry fires only while
\* the request's attempt counter is below maxRetries.
C1_RetryBounded ==
    /\ [](\A r \in Reqs :
            /\ Nullish(req[r].retryCount, 0) <= MaxRetriesInForce
            /\ Len(req[r].delays) <= MaxRetriesInForce
            /\ req[r].attempts <= MaxRetriesInForce + 1
            /\ (retryOptions = DefaultRetryOptions => req[r].attempts <= 4))
    /\ [][\A r \in Reqs :
            (req'[r].attempts > req[r].attempts /\ req[r].attempts > 0)
                => /\ req[r].pc = "sleeping"
                   /\ req[r].retryCount - 1 < MaxRetriesInForce
                   /\ req'[r].attempts = req[r].attempts + 1]_vars

C1_Witness ==
    \E r \in Reqs :
        /\ retryOptions = DefaultRetryOptions
        /\ req[r].pc = "rejected"
        /\ req[r].attempts = 4
        /\ req[r].retryCount = 3

\* C2: a failed attempt is retried iff its counter is below maxRetries and
\* the failure is retryable (no response, ECONNABORTED, 5xx or 429); a 4xx
\* other than 429 is never retried, and when it answers the first attempt the
\* caller is rejected after exactly one attempt with no backoff delay.
C2_RetryPolicy ==
    [][\A r \in Reqs :
        FailureDelivered(r) =>
            /\ (req'[r].pc = "sleeping")
                  <=> (/\ Nullish(req[r].retryCount, 0) < MaxRetriesInForce
                       /\ PolicyRetryable(req'[r].last))
            /\ req'[r].pc \in {"sleeping", "rejected"}
            /\ (req'[r].pc = "sleeping")
                  => Len(req'[r].delays) = Len(req[r].delays) + 1
            /\ (req'[r].last.hasResponse /\ req'[r].last.status \in 400..499
                    /\ req'[r].last.status # 429)
                  => /\ req'[r].pc = "rejected"
                     /\ req'[r].delays = req[r].delays
                     /\ req'[r].attempts = req[r].attempts
                     /\ (req[r].attempts = 1 => req'[r].delays = <<>>)]_vars

C2_Witness ==
    \E r \in Reqs :
        /\ MaxRetriesInForce = 3
        /\ req[r].pc = "rejected"
        /\ req[r].last.status = 404
        /\ req[r].attempts = 1
        /\ req[r].delays = <<>>

\* C3: when the first k attempts fail retryably and attempt k + 1 succeeds,
\* the call resolves with that attempt's payload after exactly k retries; with
\* the default options the delays slept are the first k of 1000, 2000, 4000.
C3_SuccessAfterRetries ==
    \A r \in Reqs :
        /\ (req[r].last \in SuccessOutcomes) => req[r].pc = "resolved"
        /\ (req[r].pc = "resolved") =>
              /\ req[r].last \in SuccessOutcomes
              /\ req[r].result = [data |-> req[r].last.data, attempt |-> req[r].fails + 1]
              /\ req[r].attempts = req[r].fails + 1
              /\ Nullish(req[r].retryCount, 0) = req[r].fails
              /\ Len(req[r].delays) = req[r].fails
              /\ (retryOptions = DefaultRetryOptions
                    => req[r].delays = SubSeq(<<1000, 2000, 4000>>, 1, req[r].fails))

\* 503, 503, 503, 200 under the default options
C3_Witness ==
    \E r \in Reqs :
        /\ retryOptions = DefaultRetryOptions
        /\ req[r].pc = "resolved"
        /\ req[r].fails = 3
        /\ req[r].all503
        /\ req[r].last.status = 200
        /\ req[r].delays = <<1000, 2000, 4000>>
        /\ req[r].result.data = req[r].last.data

\* every attempt of r failed retryably and the caller was rejected
Exhausted(r) == req[r].pc = "rejected" /\ PolicyRetryable(req[r].last)

\* C4: when every attempt fails retryably and the retries are exhausted, the
\* caller is rejected with the error of the last attempt made, which is
\* attempt maxRetries + 1, and no attempt is made afterwards.
C4_ExhaustedRejectsWithLast ==
    /\ [](\A r \in Reqs :
            Exhausted(r) =>
                /\ req[r].attempts = MaxRetriesInForce + 1
                /\ req[r].error = AxiosErrorOf(req[r].last, r, MaxRetriesInForce + 1))
    /\ [][\A r \in Reqs : req[r].pc = "rejected" => req'[r] = req[r]]_vars

C4_Witness ==
    \E r \in Reqs :
        /\ retryOptions = DefaultRetryOptions
        /\ Exhausted(r)
        /\ req[r].error.attempt = 4
        /\ req[r].error.status = 503
        /\ ~req[r].all503


\* C16: a diagnostic line (request line or retry notice) is logged only when
\* NODE_ENV is 'development' or SDK_DEBUG is 'true'; under the production
\* environment no attempt and no retry of any request logs anything.
C16_LogsOnlyWhenEnabled ==
    /\ logs > 0 => (env.NODE_ENV = "development" \/ env.SDK_DEBUG = "true")
    /\ env = ProductionEnv => logs = 0

\* logging forced in production: a retried request has logged its request
\* lines and its retry notice
C16_Witness ==
    /\ env = [NODE_ENV |-> "production", SDK_DEBUG |-> "true"]
    /\ \E r \in Reqs : req[r].attempts = 2 /\ req[r].pc = "inflight"
    /\ logs >= 3

(***************************************************************************)
(* WalletManager: properties                                               *)
(***************************************************************************)

\* a step in which a connect() call starts
ConnectStarts ==
    calls["connect"].pc = "done" /\ calls'["connect"] # calls["connect"]

\* a step in which the manager's connect() resumes after its await
ConnectSettles ==
    calls["connect"].pc = "adapter" /\ calls'["connect"].pc = "done"

\* a step in which the manager's disconnect() resumes after its await
DisconnectSettles ==
    calls["disconnect"].pc = "adapter" /\ calls'["disconnect"].pc = "done"

\* a step in which init() runs restoreConnection() and completes
InitCompletes ==
    \E got \in BOOLEAN : \E removed \in BOOLEAN :
        InitResumes(got, removed) \/ (ManagerInit(got, removed) /\ ~HasInit(adapter))

\* C5: connect() on an adapter whose isAvailable() is false fails at once,
\* without invoking adapter.connect, and leaves the connection record and the
\* persisted slot as they were; when isAvailable() is true it invokes
\* adapter.connect, and the record the adapter resolves with becomes the
\* current connection record.
C5_ConnectFailsFastOrAdopts ==
    [][/\ (ConnectStarts /\ ~IsAvailable(adapter)) =>
            /\ calls'["connect"] = Settled(FALSE, FALSE)
            /\ connectionInfo' = connectionInfo
            /\ slot' = slot
       /\ (ConnectStarts /\ IsAvailable(adapter)) =>
            /\ calls'["connect"].delegated
            /\ calls'["connect"].pc # "done"
       /\ (ConnectSettles /\ calls["connect"].adapterOk) =>
            /\ calls'["connect"].ok
            /\ connectionInfo' = calls["connect"].info]_vars

\* a record adopted from an earlier connect and a stored item are intact after
\* a connect() that failed fast on an unavailable adapter
C5_Witness ==
    /\ calls["connect"] = Settled(FALSE, FALSE)
    /\ ~IsAvailable(adapter)
    /\ connectionInfo = Info(Acc456, <<"testnet">>, Undefined)
    /\ slot # NoItem

\* C6: when disconnect() settles, fulfilled or rejected, isConnected() is
\* false and getConnectionInfo() is null.
C6_DisconnectAlwaysClears ==
    [][DisconnectSettles => (~IsConnected' /\ GetConnectionInfo' = NullInfo)]_vars

\* C7: when disconnect() completes, the persisted slot is empty, whichever
\* adapter the manager holds.
C7_DisconnectEmptiesSlot ==
    [][(DisconnectSettles /\ calls'["disconnect"].ok) => slot' = NoItem]_vars

\* C8: when init() runs against a slot that holds a syntactically invalid
\* JSON text, it completes without throwing, and afterwards isConnected() is
\* false, getConnectionInfo() is null and the slot is empty, whatever the
\* manager's state was before.
C8_InvalidBlobClearsState ==
    [][(InitCompletes /\ hasWindow /\ ParseThrows(slot)) =>
            /\ calls'["init"].ok
            /\ ~IsConnected'
            /\ GetConnectionInfo' = NullInfo
            /\ slot' = NoItem]_vars

\* C9: whenever isConnected() is true the connection record has an accountId
\* matching ^0\.0\.\d+$ and a network that is testnet or mainnet.
C9_ConnectedRecordWellFormed ==
    IsConnected =>
        /\ IsValidAccountId(connectionInfo.accountId)
        /\ IsValidNetwork(connectionInfo.network)


\* C17: on a manager holding the adapter its constructor chose for lack of an
\* adapter argument, a connectHashPack() called while isHashPackAvailable()
\* is true does not fail for lack of a provider: it is handed to a provider.
C17_LegacyFlowConnects ==
    [][(ConnectStarts /\ adapter \in DefaultAdapterKinds /\ IsHashPackAvailable) =>
            /\ calls'["connect"].delegated
            /\ calls'["connect"].pc = "provider"]_vars

\* C18: under the HashConnect, WalletConnect and stub adapters,
\* isHashPackAvailable() is true exactly when window.hashpack is present.
C18_HashPackAvailableIffGlobal ==
    adapter \in {"hashconnect", "walletconnect", "stub"} =>
        (IsHashPackAvailable <=> (hasWindow /\ hashpack.present))

\* a step in which requestTransaction() is called and runs to its await or
\* to its throw
RequestTransactionStarts ==
    /\ calls["requestTransaction"].pc = "done"
    /\ calls'["requestTransaction"] # calls["requestTransaction"]

\* C19: requestTransaction() called while isConnected() is false rejects
\* without calling adapter.requestTransaction; the adapter is called only by a
\* requestTransaction() made while the manager is connected.
C19_RequestTransactionNeedsConnection ==
    [][RequestTransactionStarts =>
            IF IsConnected THEN calls'["requestTransaction"].delegated
            ELSE calls'["requestTransaction"] = Settled(FALSE, FALSE)]_vars

\* requestTransaction() was rejected by the manager itself although the
\* HashConnect adapter is available and exposes the request API
C19_Witness ==
    /\ calls["requestTransaction"] = Settled(FALSE, FALSE)
    /\ ~IsConnected
    /\ adapter = "hashconnect"
    /\ IsAvailable(adapter)
    /\ Callable(hashpack, "requestTransaction")

\* the init() under way runs on the WalletConnectAdapter the manager holds
InitOnHeldAdapter == calls["init"].on = "walletconnect"

\* C20 as stated: WalletConnectAdapter.init() resolves whatever fails, and
\* after a failed import or a failed initialisation of either module
\* isAvailable() is false (read on the adapter the manager still holds).
C20_AnyInitFailureMeansUnavailable ==
    [][\A outcome \in WcInitOutcomes \ {"loaded"} :
            WcInitSettles(outcome) =>
                /\ calls'["init"].adapterOk
                /\ InitOnHeldAdapter => ~IsAvailable(adapter)']_vars

\* C20 amended: init() resolves whatever fails; after a failed import, an
\* invalid universal-provider export or a rejected UniversalProvider.init
\* isAvailable() is false and connect() fails fast without reaching the
\* provider; isAvailable() turns true only in an init() whose
\* UniversalProvider.init succeeded, a failure of the Hedera connector
\* notwithstanding (isAvailable() read on the adapter the manager still
\* holds when its init() settles).
C20_InitDegradesToUnavailable ==
    [][/\ \A outcome \in WcInitOutcomes :
            WcInitSettles(outcome) =>
                /\ calls'["init"].adapterOk
                /\ calls'["init"].pc = "adapter"
                /\ (InitOnHeldAdapter
                      /\ outcome \in {"importFails", "invalidExport", "initRejects"})
                        => ~IsAvailable(adapter)'
       /\ (ConnectStarts /\ adapter = "walletconnect" /\ ~wcProvider) =>
            calls'["connect"] = Settled(FALSE, FALSE)
       /\ (adapter' = "walletconnect" /\ ~wcProvider /\ wcProvider') =>
            \E outcome \in {"loaded", "connectorFails"} : WcInitSettles(outcome)]_vars

\* init() has completed on a WalletConnect adapter that stayed unavailable,
\* and a connect() after it failed without being delegated
C20_Witness ==
    /\ adapter = "walletconnect"
    /\ calls["init"] = Settled(TRUE, TRUE)
    /\ ~IsAvailable(adapter)
    /\ calls["connect"] = Settled(FALSE, FALSE)
    /\ connectionInfo = NullInfo

(***************************************************************************)
(* APIClient: backoff properties                                           *)
(***************************************************************************)

\* the options in force, each with the fallback retryRequest applies
BaseDelayInForce ==
    IF retryOptions.baseDelay = UndefNum THEN DefaultBaseDelay ELSE retryOptions.baseDelay
ExponentialBaseInForce ==
    IF retryOptions.exponentialBase = UndefNum THEN DefaultExponentialBase ELSE retryOptions.exponentialBase
MaxDelayInForce ==
    IF retryOptions.maxDelay = UndefNum THEN DefaultMaxDelay ELSE retryOptions.maxDelay

\* the delay before the i-th retry is min(baseDelay * exponentialBase^(i-1),
\* maxDelay), and so is at most maxDelay
DelaysFollowFormula ==
    \A r \in Reqs : \A i \in 1..Len(req[r].delays) :
        /\ \/ req[r].delays[i] = BaseDelayInForce * Pow(ExponentialBaseInForce, i - 1)
           \/ req[r].delays[i] = MaxDelayInForce
        /\ req[r].delays[i] <= BaseDelayInForce * Pow(ExponentialBaseInForce, i - 1)
        /\ req[r].delays[i] <= MaxDelayInForce

DelaysNonDecreasing ==
    \A r \in Reqs : \A i \in 1..Len(req[r].delays) : \A j \in 1..Len(req[r].delays) :
        i <= j => req[r].delays[i] <= req[r].delays[j]

\* C24 as stated: the delay before the i-th retry is min(baseDelay *
\* exponentialBase^(i-1), maxDelay), and for any options the delays of a
\* request are non-decreasing and never exceed maxDelay.
C24_BackoffMonotoneForAnyOptions == DelaysFollowFormula /\ DelaysNonDecreasing

\* C24 amended: the delay before the i-th retry is min(baseDelay *
\* exponentialBase^(i-1), maxDelay) and never exceeds maxDelay; the delays of
\* a request are non-decreasing when baseDelay >= 0 and exponentialBase >= 1.
C24_BackoffMonotoneForGrowingOptions ==
    /\ DelaysFollowFormula
    /\ (BaseDelayInForce >= 0 /\ ExponentialBaseInForce >= 1) => DelaysNonDecreasing

\* a request slept 500, then 1000: the second product 1500 was cut to the
\* ceiling 1000
C24_Witness ==
    \E r \in Reqs :
        /\ retryOptions.baseDelay = 500 /\ retryOptions.exponentialBase = 3
        /\ retryOptions.maxDelay = 1000
        /\ req[r].delays = <<500, 1000>>

(***************************************************************************)
(* The id validators: properties                                           *)
(***************************************************************************)

\* one step of an automaton for ^0\.0\.\d+$: states 0..4 have read that many
\* symbols of "0.0.", state 5 has read one digit or more after them, state 6
\* is the mismatch
IdStep(q, ch) ==
    CASE q = 0 /\ ch = "0" -> 1
      [] q = 1 /\ ch = "." -> 2
      [] q = 2 /\ ch = "0" -> 3
      [] q = 3 /\ ch = "." -> 4
      [] q \in {4, 5} /\ ch \in Digits -> 5
      [] OTHER -> 6

RECURSIVE IdRun(_, _)
IdRun(q, s) == IF s = <<>> THEN q ELSE IdRun(IdStep(q, Head(s)), Tail(s))

\* s matches ^0\.0\.\d+$
MatchesId(s) == IdRun(0, s) = 5

\* C27: isValidAccountId, isValidTokenId, isValidTopicId and the static
\* WalletManager.isValidAccountId return true exactly for the strings that
\* match ^0\.0\.\d+$, and so agree on every string.
C27_ValidatorsMatchPattern ==
    validated.called =>
        /\ validated.account = MatchesId(validated.input)
        /\ validated.token = MatchesId(validated.input)
        /\ validated.topic = MatchesId(validated.input)
        /\ validated.wallet = MatchesId(validated.input)

\* the id of the test was accepted by all four
C27_Witness ==
    /\ validated.called
    /\ validated.input = <<"0", ".", "0", ".", "1", "2", "3", "4", "5", "6">>
    /\ validated.account /\ validated.token /\ validated.topic /\ validated.wallet

(***************************************************************************)
(* sanitizeEventData: properties                                           *)
(***************************************************************************)

RECURSIVE FreeOfControl(_)
\* no string at any depth below the value holds a control character
FreeOfControl(value) ==
    CASE value.t = "string" -> ~HasControl(value.str)
      [] value.t = "object" ->
            \A i \in DOMAIN value.entries : FreeOfControl(value.entries[i][2])
      [] value.t = "array" -> \A i \in DOMAIN value.items : FreeOfControl(value.items[i])
      [] OTHER -> TRUE

\* a second application returns what the first returned
SanitizeIdempotent == sanitized.applied >= 2 => sanitized.output = sanitized.input

\* C26: sanitizeEventData is idempotent, and no string value at any depth of
\* its result holds a character of [0x00-0x1F, 0x7F].
C26_SanitizeIdempotentAndClean ==
    /\ SanitizeIdempotent
    /\ sanitized.applied >= 1 =>
          \A i \in DOMAIN sanitized.output : FreeOfControl(sanitized.output[i][2])

(***************************************************************************)
(* Wallet: persistence properties                                          *)
(***************************************************************************)

\* the stored item reads back as the record the adapter resolved with
ReadsBack == Truthy(slot') /\ ~ParseThrows(slot') /\ Parse(slot') = calls'["connect"].info

\* a step in which a manager constructed without an adapter on the same page
\* runs its init(), right after a connect() of the first manager has returned
\* a record (no other call of the first manager since); its getItem returns
FreshManagerInit ==
    /\ \E removed \in BOOLEAN : PeerRestoreConnection(TRUE, removed)
    /\ peer = NullInfo
    /\ flow = "connected"

\* C23: after a successful connect() through a built-in adapter in a browser,
\* init() on a fresh WalletManager sharing the storage ends connected, with
\* the record connect() returned.
C23_RoundTrip ==
    [][FreshManagerInit => (peer' # NullInfo /\ peer' = connectionInfo)]_vars

\* C21: adapter.disconnect() of the HashConnect and the WalletConnect adapter
\* fulfils whether the provider's disconnect returns, throws or rejects, and
\* in a browser the persisted item is gone when it has fulfilled.
C21_AdapterDisconnectBestEffort ==
    [][\A removed \in BOOLEAN :
        /\ \A calleeOk \in BOOLEAN :
                (ManagerDisconnect(calleeOk, removed) /\ adapter = "hashconnect") =>
                    /\ calls'["disconnect"] = Suspended("adapter", NullInfo, TRUE)
                    /\ hasWindow => slot' = NoItem
        /\ (ManagerDisconnect(TRUE, removed) /\ adapter = "walletconnect" /\ ~wcProvider) =>
                /\ calls'["disconnect"] = Suspended("adapter", NullInfo, TRUE)
                /\ hasWindow => slot' = NoItem
        /\ \A providerOk \in BOOLEAN :
                WcDisconnectSettles(providerOk, removed) =>
                    /\ calls'["disconnect"] = Suspended("adapter", NullInfo, TRUE)
                    /\ hasWindow => slot' = NoItem]_vars

(***************************************************************************)
(* Wallet: who writes the connection record                                *)
(***************************************************************************)

\* a step of connect() that ends in its rejection, or that is not its last
ConnectWithoutSuccess ==
    \/ ManagerConnect
    \/ ProviderRejects
    \/ ConnectResumes /\ ~calls["connect"].adapterOk

\* a step of connect() returning the adapter's record
ConnectSucceeds == ConnectResumes /\ calls["connect"].adapterOk

\* C28: the connection record changes only in a successful connect(), in
\* disconnect() and in restoreConnection() / init(); setAdapter,
\* requestTransaction and a connect() that fails leave it as it is (the
\* getters and isHashPackAvailable read the state and make no step).
C28_RecordWrittenOnlyByConnectDisconnectRestore ==
    [][/\ connectionInfo' # connectionInfo =>
            (\/ ConnectSucceeds \/ DisconnectResumes \/ InitCompletes
             \/ \E got \in BOOLEAN : \E removed \in BOOLEAN : RestoreConnection(got, removed))
       /\ (\E k \in AdapterKinds : SetAdapter(k)) => connectionInfo' = connectionInfo
       /\ (ManagerRequestTransaction \/ \E ok \in BOOLEAN : RequestTransactionSettles(ok))
            => connectionInfo' = connectionInfo
       /\ ConnectWithoutSuccess => connectionInfo' = connectionInfo]_vars

\* a connected manager whose later connect() was rejected by the provider
\* still holds its record
C28_Witness ==
    /\ IsConnected
    /\ calls["connect"] = Settled(FALSE, TRUE)
    /\ calls["requestTransaction"] # NoCall
    /\ calls["requestTransaction"].pc = "done"
    /\ calls["requestTransaction"].delegated

\* C29: a manager holding the stub (setAdapter only ever attaches another
\* adapter, so it has held the stub since construction) is not connected,
\* whatever init, connect, disconnect and restoreConnection calls were made.
C29_StubStaysUnconfigured == adapter = "stub" => ~IsConnected

\* connect() is called right after a connect() and a disconnect() that both
\* fulfilled, with no other call of the manager in between
Reconnect == ManagerConnect /\ flow = "disconnected"

\* connect() is handed over to the wallet provider, which decides: it awaits
\* the provider's answer, or it awaits waitForHashPack in a browser whose
\* global is present and has a connect method, which it calls next
ReachesProvider ==
    \/ calls'["connect"].pc = "provider"
    \/ /\ calls'["connect"].pc = "wait"
       /\ hasWindow /\ hashpack.present
       /\ ProbeConnectMethod(hashpack) # NoMethod

\* the wait of a HashConnect connect() has found a global with a connect
\* method
WaitFindsMethod ==
    /\ HashConnectWaitSettles(TRUE)
    /\ ProbeConnectMethod(hashpack) # NoMethod

\* C30 as stated: with either built-in adapter, a connect() made right after
\* connect() and disconnect() reaches the wallet provider, so that it
\* succeeds when the provider is willing.
C30_ReconnectReachesProvider ==
    [][(Reconnect /\ adapter \in {"hashconnect", "walletconnect"}) => ReachesProvider]_vars

\* C30 amended: such a connect() reaches the provider with a
\* HashConnectAdapter; with a WalletConnectAdapter it is rejected at once,
\* the provider being dropped by disconnect(), and a connect() reaches the
\* provider again once init() has loaded one.
C30_ReconnectNeedsInitOnWalletConnect ==
    [][/\ (Reconnect /\ adapter = "hashconnect") => ReachesProvider
       /\ (Reconnect /\ adapter = "walletconnect") =>
            calls'["connect"] = Settled(FALSE, FALSE)
       /\ (ManagerConnect /\ adapter = "walletconnect" /\ wcProvider) => ReachesProvider
       /\ WaitFindsMethod => calls'["connect"] = AtProvider("hashconnect")]_vars

\* a WalletConnect manager whose connect() right after connect() and
\* disconnect() was rejected without reaching the provider
C30_Witness ==
    /\ adapter = "walletconnect"
    /\ flow = "reconnecting"
    /\ calls["connect"] = Settled(FALSE, FALSE)
    /\ calls["disconnect"] = Settled(TRUE, TRUE)
    /\ ~wcProvider

(***************************************************************************)
(* Wallet: two managers                                                    *)
(***************************************************************************)

\* a step of a connect(), disconnect() or restoreConnection() call on the
\* first manager
FirstManagerStep ==
    \/ ManagerConnect
    \/ \E found \in BOOLEAN : HashConnectWaitSettles(found)
    \/ ProviderRejects
    \/ \E result \in HashPackResults : \E stored \in BOOLEAN : HashPackResolves(result, stored)
    \/ ConnectResumes
    \/ \E calleeOk \in BOOLEAN : \E removed \in BOOLEAN : ManagerDisconnect(calleeOk, removed)
    \/ DisconnectResumes
    \/ \E got \in BOOLEAN : \E removed \in BOOLEAN : RestoreConnection(got, removed)

\* C31: a connect(), disconnect() or restore on one manager changes neither
\* the record of the other manager (isConnected(), getConnectionInfo()) nor
\* what restoreConnection() or init() on the other manager would yield.
C31_ManagersIndependent ==
    [][FirstManagerStep =>
        (peer' = peer /\ RestoreConnectionResult' = RestoreConnectionResult)]_vars

\* afterDisconnect, where it is followed ("untracked" elsewhere):
\*   none    no disconnect() has completed, or a connect() called after the
\*           last one has resolved in its adapter
\*   clean   a disconnect() has completed and no connect() called since is
\*           under way
\*   called  a connect() called after that disconnect() awaits its provider

\* C32: once a disconnect() has completed, the manager is not connected and
\* the stored item is absent until a connect() called after it succeeds; a
\* connect() in flight when disconnect() ran changes neither.
C32_DisconnectedUntilLaterConnect ==
    afterDisconnect \in {"clean", "called"} => (~IsConnected /\ slot = NoItem)

(***************************************************************************)
(* CoinFantasyHederaSDK: waitForOperation                                  *)
(***************************************************************************)

NonFinalStates == {"PENDING", "IN_PROGRESS", "RETRYING"}

\* waitForOperation has returned or thrown
OpWaitEnded == opWait.pc \in {"returned", "thrown"}

\* what is returned is COMPLETED or FAILED
ReturnsFinalOnly == opWait.pc = "returned" => opWait.result \in {"COMPLETED", "FAILED"}

\* a status that arrives is returned when it is COMPLETED or FAILED, and is
\* followed by the sleep before the next poll when it is anything else
PollsWhileNotFinal ==
    \A state \in OperationStates :
        StatusArrives(state) =>
            /\ state \in NonFinalStates
                  => (opWait'.pc = "sleeping" /\ opWait'.result = "none")
            /\ state \notin NonFinalStates
                  => (opWait'.pc = "returned" /\ opWait'.result = state)

\* after a sleep the next poll is made exactly when the timeout has not elapsed
PollsUntilTimeout ==
    OpTimerFires =>
        IF opWait.clock < opWait.timeout
        THEN opWait'.pc = "polling"
        ELSE opWait'.pc = "thrown" /\ opWait'.error = "timed out"

\* the next poll is due and the client has no request record left for it
OutOfRequests ==
    /\ opWait.pc = "sleeping"
    /\ opWait.clock >= opWait.wakeAt
    /\ opWait.clock < opWait.timeout
    /\ \A r \in Reqs : req[r].pc # "idle"

\* a waitForOperation under way returns or throws, as far as the client's
\* request records reach
OpWaitTerminates == (opWait.pc \in {"polling", "sleeping"}) ~> (OpWaitEnded \/ OutOfRequests)

\* C37: waitForOperation returns only a status that is COMPLETED or FAILED;
\* while the gateway reports another state it keeps polling, at least one
\* poll is always made, a wait that ends without a final status fails with
\* the timed-out error, and it always terminates.
C37_WaitReturnsFinalOrTimesOut ==
    /\ []ReturnsFinalOnly
    /\ [](OpWaitEnded => opWait.polled)
    /\ [](opWait.pc = "thrown" => opWait.error = "timed out")
    /\ [][PollsWhileNotFinal /\ PollsUntilTimeout]_vars
    /\ OpWaitTerminates

\* C37 as the loop has it: a status request that fails for good ends the
\* wait with the request's error, an answer that carries no operation ends it
\* with a TypeError, and a negative timeout ends it with the timed-out error
\* before any poll; otherwise at least one poll is made and the wait ends
\* with a final status or, once the timeout has elapsed, the timed-out
\* error.
C37_WaitReturnsFinalOrFails ==
    /\ []ReturnsFinalOnly
    /\ [](opWait.pc = "returned" => opWait.polled)
    /\ [](opWait.pc = "thrown" =>
            \/ /\ opWait.error = "timed out"
               /\ opWait.clock >= opWait.timeout
               /\ opWait.polled <=> opWait.timeout > 0
            \/ /\ opWait.error = "request failed"
               /\ opWait.polled
               /\ req[opWait.request].pc = "rejected"
            \/ /\ opWait.error = "TypeError"
               /\ opWait.polled
               /\ req[opWait.request].pc = "resolved"
               /\ req[opWait.request].result.data \notin OperationStates)
    /\ [](opWait.pc # "idle" =>
            /\ opWait.pollInterval > 0
            /\ opWait.timeout # 0)
    /\ [][PollsWhileNotFinal /\ PollsUntilTimeout]_vars
    /\ OpWaitTerminates

\* with a timeout of 3 s a status that was not final was followed by a sleep
\* and a second poll, which reported COMPLETED
C37_Witness ==
    /\ opWait.pc = "returned"
    /\ opWait.result = "COMPLETED"
    /\ opWait.timeout = 3000
    /\ opWait.polledAt > 0

\* C36: HashConnectAdapter.connect() succeeds only if the provider returned a
\* non-empty account list; the record it resolves with has the first account
\* as accountId and is at that moment what the stored item holds, whatever
\* the item held before; with zero accounts it fails with the no-accounts
\* error and the stored item is as before.
C36_ConnectStoresFirstAccount ==
    [][\A result \in HashPackResults : \A stored \in BOOLEAN :
        HashPackResolves(result, stored) =>
            /\ calls'["connect"].adapterOk
                  => /\ Len(result.accountIds) > 0
                     /\ calls'["connect"].info.accountId = result.accountIds[1]
                     /\ slot' = Stringify(calls'["connect"].info)
                     /\ ReadsBack
            /\ Len(result.accountIds) = 0
                  => /\ ~calls'["connect"].adapterOk
                     /\ HashConnectThrows(result, stored) = "No accounts returned by HashPack"
                     /\ slot' = slot]_vars

\* a second connect() has resolved with the first of two accounts while the
\* item still held the record of the first connect()
C36_Witness ==
    /\ calls["connect"].pc = "adapter"
    /\ calls["connect"].adapterOk
    /\ calls["connect"].info.accountId = Acc456
    /\ IsConnected
    /\ connectionInfo.accountId = Acc123
    /\ Parse(slot) = calls["connect"].info

(***************************************************************************)
(* HashConnectAdapter: injection polling                                   *)
(***************************************************************************)

\* waitForHashPack has returned
WaitReturned == wait.pc = "returned"

\* connect() fails with the wallet-not-available error exactly when its
\* waitForHashPack(10000) resolved with null
ConnectFailsIffNotFound ==
    (WaitReturned /\ wait.connect # "none")
        => /\ wait.timeoutMs = ConnectWaitMs
           /\ (wait.connect = "notAvailable") <=> (wait.result = "null")

\* a waitForHashPack under way returns
WaitTerminates == (wait.pc = "sleeping") ~> WaitReturned

\* C35: the injection polling always terminates; waitForHashPack returns the
\* provider if the global appears before timeoutMs has elapsed and null
\* otherwise, at most timeoutMs plus one poll interval after its start, and
\* connect() fails with the wallet-not-available error iff its wait of
\* 10 s found no injection.
C35_PollingFindsInjectionInTime ==
    /\ [](WaitReturned =>
            /\ (wait.result = "hp")
                  <=> (wait.injectedAt # Never /\ wait.injectedAt < wait.timeoutMs)
            /\ wait.result \in {"hp", "null"}
            /\ wait.returnedAt <= wait.timeoutMs + PollInterval)
    /\ []ConnectFailsIffNotFound
    /\ WaitTerminates

\* C35 as the loop has it: the provider is returned exactly when one of the
\* reads, made at the call and after each 250 ms sleep while less than
\* timeoutMs has elapsed, finds the global; null is returned at once where
\* there is no window, and otherwise once timeoutMs has elapsed, also when
\* the global appeared after the last read; there are at most
\* timeoutMs / 250 + 1 reads, and where no timer is late the call returns at
\* most timeoutMs plus one interval after its start.
C35_PollingFindsInjectionAtAPoll ==
    /\ [](/\ wait.polls <= wait.timeoutMs \div PollInterval + 1
          /\ wait.pc = "sleeping" => wait.lastPollAt < wait.timeoutMs)
    /\ [](WaitReturned =>
            /\ wait.result \in {"hp", "null"}
            /\ (wait.result = "hp")
                  => /\ wait.injectedAt # Never
                     /\ wait.injectedAt <= wait.lastPollAt
                     /\ wait.lastPollAt = wait.returnedAt
                     /\ wait.returnedAt < wait.timeoutMs
            /\ (wait.result = "null" /\ hasWindow)
                  => /\ wait.returnedAt >= wait.timeoutMs
                     /\ wait.injectedAt = Never \/ wait.injectedAt >= wait.lastPollAt
            /\ ~hasWindow => (wait.result = "null" /\ wait.returnedAt = 0 /\ wait.polls = 0)
            /\ ~wait.late => wait.returnedAt <= wait.timeoutMs + PollInterval)
    /\ []ConnectFailsIffNotFound
    /\ WaitTerminates

\* connect() on the adapter: the extension injects the global 9750 ms after
\* the call, just after the last read, and connect() fails as not available
\* at 10000 ms
C35_Witness ==
    /\ WaitReturned
    /\ wait.connect = "notAvailable"
    /\ wait.polls = 40
    /\ wait.lastPollAt = 9750
    /\ wait.injectedAt = 9750
    /\ wait.returnedAt = ConnectWaitMs
    /\ ~wait.late

\* C34: when cleanup() returns, and right after a wallet.disconnect() call
\* that is not awaited, isConnected() is false.
C34_CleanupLeavesDisconnected == [][Cleanup => ~IsConnected']_vars

\* C33: retry state is per request: each request's counter counts its own
\* retried failures only, each request is rejected on a retryable failure only
\* after its own maxRetries retries, and a step of one request (failure, retry
\* or the start and end of its backoff sleep) leaves every other request as
\* it was.
C33_RetryStatePerRequest ==
    /\ [](\A r \in Reqs :
            /\ Nullish(req[r].retryCount, 0) = Len(req[r].delays)
            /\ req[r].pc \in {"sleeping", "inflight"}
                  => req[r].fails = Nullish(req[r].retryCount, 0)
            /\ Exhausted(r)
                  => /\ req[r].fails = MaxRetriesInForce + 1
                     /\ Len(req[r].delays) = MaxRetriesInForce)
    /\ [][\A r, q \in Reqs :
            (r # q /\ req'[r] # req[r]) => req'[q] = req[q]]_vars

\* one request has used its whole budget and sleeps before its last attempt
\* while the other, issued meanwhile, has failed once and sleeps its first
\* delay
C33_Witness ==
    \E r, q \in Reqs :
        /\ r # q
        /\ MaxRetriesInForce = 2
        /\ req[r].pc = "sleeping" /\ req[r].retryCount = 2
        /\ req[q].pc = "sleeping" /\ req[q].retryCount = 1
        /\ Len(req[q].delays) = 1

(***************************************************************************)
(* RateLimiter: properties                                                 *)
(***************************************************************************)

\* grants whose timestamp lies in the trailing window (now - windowMs, now]
GrantsInWindow ==
    {i \in DOMAIN grants : now - limiter.windowMs < grants[i] /\ grants[i] <= now}

\* C10: absent reset(), at every instant at most maxRequests grants have a
\* timestamp in the trailing window (now - windowMs, now], whatever the
\* interleaving of the acquire() callers. Every instant t is the value of now
\* in some state, and every grant stamped t or earlier is made before the
\* clock leaves t, so the invariant covers every t.
C10_WindowNeverOverfull ==
    ~WasReset => Cardinality(GrantsInWindow) <= limiter.maxRequests

\* a full window, a caller suspended behind it, and a grant made after a wait
C10_Witness ==
    /\ ~WasReset
    /\ limiter.maxRequests = 2
    /\ limiter.windowMs = 3
    /\ now >= limiter.windowMs
    /\ Cardinality(GrantsInWindow) = 2
    /\ \E c \in Callers : acq[c].pc = "idle" /\ acq[c].waits = 1
    /\ \E c \in Callers : acq[c].pc = "waiting" /\ acq[c].wakeAt > now

\* C25: reset() clears the window at once: whatever was granted before, none
\* of the next maxRequests executions of acquire() after a reset() is
\* suspended.
C25_ResetClearsWindow == WasReset => ~sinceReset.suspended

\* two grants were made after the reset() of a limiter of two requests per
\* window while two grants made before it were still inside the window
C25_Witness ==
    /\ WasReset
    /\ limiter.maxRequests = 2
    /\ sinceReset.calls = 2
    /\ Cardinality(GrantsInWindow) = 4

\* this.requests is in non-decreasing order and holds at most maxRequests
\* timestamps
RequestsSortedAndBounded ==
    /\ \A i, j \in DOMAIN requests : i <= j => requests[i] <= requests[j]
    /\ Len(requests) <= limiter.maxRequests

\* caller c can run the body of acquire() now: by calling it, or because the
\* timer it is suspended on is due
CanRunAcquire(c) ==
    acq[c].pc = "idle" \/ (acq[c].pc = "waiting" /\ now >= acq[c].wakeAt)

\* an acquire() run in this state suspends
WouldSuspend ==
    /\ \E c \in Callers : CanRunAcquire(c)
    /\ AtCapacity(Prune(requests, now))

\* the waitTime that acquire() computes in the current state
WaitTimeNow == WaitTime(Prune(requests, now), now)

\* C38: in every reachable state the grant list is in non-decreasing order
\* and no longer than maxRequests, and every waitTime computed when acquire()
\* suspends satisfies 0 < waitTime <= windowMs.
C38_ListSortedBoundedWaitInWindow ==
    /\ RequestsSortedAndBounded
    /\ WouldSuspend => (0 < WaitTimeNow /\ WaitTimeNow <= limiter.windowMs)

\* C38 with the limiter of no capacity set apart: with maxRequests >= 1 every
\* waitTime computed on suspension lies in (0, windowMs] and a suspended
\* caller is never due later than a window from now; with maxRequests = 0
\* every acquire() suspends on an empty list, where no oldest grant exists
\* and the waitTime is not a number.
C38_ListSortedBoundedWaitInWindowWithCapacity ==
    /\ RequestsSortedAndBounded
    /\ WouldSuspend =>
          IF limiter.maxRequests >= 1
          THEN /\ 0 < WaitTimeNow /\ WaitTimeNow <= limiter.windowMs
               /\ Len(Prune(requests, now)) = limiter.maxRequests
          ELSE Prune(requests, now) = <<>>
    /\ \A c \in Callers :
          acq[c].pc = "waiting" => acq[c].wakeAt - now <= limiter.windowMs

\* a limiter of two requests per window of three holds two grants of
\* different instants, and a caller suspended behind them is to wake when the
\* older one leaves the window
C38_Witness ==
    /\ limiter.maxRequests = 2
    /\ limiter.windowMs = 3
    /\ Len(requests) = 2
    /\ requests[1] < requests[2]
    /\ \E c \in Callers :
          /\ acq[c].pc = "waiting"
          /\ acq[c].wakeAt = requests[1] + limiter.windowMs
          /\ acq[c].wakeAt > now

\* a step in which some caller calls acquire()
AcquireCalled == \E c \in Callers : Acquire(c)

\* every caller suspended in acquire() is eventually admitted
EverySuspendedCallerAdmitted ==
    \A c \in Callers : (acq[c].pc = "waiting") ~> (acq[c].pc = "idle")

\* C11 as stated: for any limiter configuration, when only finitely many
\* acquire() calls are made and timers fire, every suspended caller is
\* eventually admitted.
C11_EveryAcquireReturns ==
    (<>[][~AcquireCalled]_vars) => EverySuspendedCallerAdmitted

\* C11, for limiters that admit anything at all: with maxRequests >= 1, when
\* only finitely many acquire() calls are made and timers fire, every
\* suspended caller is eventually admitted.
C11_EveryAcquireReturnsWithCapacity ==
    (limiter.maxRequests >= 1 /\ <>[][~AcquireCalled]_vars)
        => EverySuspendedCallerAdmitted

\* behind a limiter of one request per window every caller has been
\* suspended and then admitted
C11_Witness ==
    /\ limiter.maxRequests = 1
    /\ limiter.windowMs > 1
    /\ \A c \in Callers : acq[c].pc = "idle" /\ acq[c].waits = 1

\* the loop has made all TestCalls calls against the limiter of the test
TestLoopDone ==
    /\ limiter = [maxRequests |-> TestMaxRequests, windowMs |-> TestWindowMs]
    /\ seq.returned = TestCalls

\* C12: from an empty window, none of the first maxRequests sequential
\* acquire() calls is suspended, call maxRequests + 1 returns no earlier than
\* windowMs after the first grant, and with maxRequests = 5, windowMs = 1000
\* the tenth call returns at least 1000 ms after the first.
C12_SequentialThrottle ==
    /\ ~seq.earlyWait
    /\ seq.overAt # NoTime => seq.overAt - seq.firstGrant >= limiter.windowMs
    /\ TestLoopDone => requests[Len(requests)] - seq.firstGrant >= TestWindowMs

\* the ten calls of the test have returned, the sixth exactly one window
\* after the first, after a suspension
C12_Witness ==
    /\ TestLoopDone
    /\ seq.overAt = seq.firstGrant + TestWindowMs
    /\ acq[SeqCaller].waits = 1


(***************************************************************************)
(* Domain managers: properties                                             *)
(***************************************************************************)

\* the arguments of an HTS call fail the documented validation
HtsInputInvalid(call) ==
    CASE call.op = "getTokenInfo" -> ~IsValidTokenId(call.tokenId)
      [] call.op = "distributeRewards" -> ValidateAmount(call.amount) # "ok"
      [] call.op = "associateToken" ->
            ~IsValidAccountId(call.accountId) \/ ~IsValidTokenId(call.tokenId)
      [] call.op = "batchDistributeRewards" ->
            \E i \in DOMAIN call.batch : ValidateAmount(call.batch[i][1]) # "ok"
      [] OTHER -> FALSE

\* C13: an HTS manager call whose input is invalid (an amount that is <= 0,
\* non-finite or above MAX_SAFE_INTEGER, a malformed token or account id)
\* issues no request.
C13_InvalidInputIssuesNoRequest ==
    \A c \in DOMAIN hts : HtsInputInvalid(hts[c]) => hts[c].request = 0

\* C14: the message and the metadata publishEvent sends to the gateway hold
\* no control character (0x00-0x1F, 0x7F).
C14_PublishedEventSanitized ==
    \A c \in DOMAIN hcs :
        /\ ~HasControl(hcs[c].message)
        /\ \A i \in DOMAIN hcs[c].metadata :
              hcs[c].metadata[i][2].t = "string"
                  => ~HasControl(hcs[c].metadata[i][2].str)

(***************************************************************************)
(* Error propagation: properties                                           *)
(***************************************************************************)

\* a step in which call c of the facade resumes after a request that failed
\* for good, and likewise for the managers
SdkRequestFailed(c) == SdkSettles(c) /\ req[sdk[c].request].pc = "rejected"
HcsRequestFailed(c) == HcsSettles(c) /\ req[hcs[c].request].pc = "rejected"
HtsRequestFailed(c) == HtsSettles(c) /\ req[hts[c].request].pc = "rejected"

\* a step in which wallet.connect() resumes after its adapter's connect()
\* rejected, and one in which the provider's request under
\* wallet.requestTransaction() rejects
ConnectCallFailed == ConnectResumes /\ ~calls["connect"].adapterOk
RequestTransactionCallFailed == RequestTransactionSettles(FALSE)

\* a step in which WalletConnectAdapter.init() ends after an import, the
\* provider's init or the connector's construction failed
WcInitCallFailed == \E outcome \in WcInitOutcomes \ {"loaded"} : WcInitSettles(outcome)

\* C22 as stated: whenever the HTTP request or the wallet call under an SDK
\* operation fails for good, the operation rejects to its caller;
\* initialize() and wallet.init() are operations like the others.
C22_EveryFailureRejects ==
    [][/\ \A c \in DOMAIN sdk : SdkRequestFailed(c) => sdk'[c].pc = "rejected"
       /\ \A c \in DOMAIN hcs : HcsRequestFailed(c) => hcs'[c].pc = "rejected"
       /\ \A c \in DOMAIN hts : HtsRequestFailed(c) => hts'[c].pc = "rejected"
       /\ ConnectCallFailed => ~calls'["connect"].ok
       /\ RequestTransactionCallFailed => ~calls'["requestTransaction"].ok
       /\ WcInitCallFailed => ~calls'["init"].adapterOk]_vars

\* C22 amended: whenever the request under getOperationStatus,
\* getGatewayHealth, getGatewayMetrics, an HCS or an HTS method fails for
\* good, the method rejects, and so do wallet.connect() when its adapter's
\* connect() fails and wallet.requestTransaction() when the provider's
\* request fails.  initialize() instead catches the failure of its health
\* request and fulfils; WalletConnectAdapter.init() catches every failure of
\* its initialisation and fulfils, so that wallet.init() settles as
\* restoreConnection() does; cleanup() returns before disconnect() settles.
C22_FailureRejectsExceptInitializeAndInit ==
    [][/\ \A c \in DOMAIN sdk :
            /\ (SdkRequestFailed(c) /\ sdk[c].op \in SdkQueries) =>
                    (sdk'[c].pc = "rejected" /\ ~sdk'[c].caught)
            /\ (SdkRequestFailed(c) /\ sdk[c].op = "initialize") =>
                    (sdk'[c].pc = "fulfilled" /\ sdk'[c].caught)
       /\ \A c \in DOMAIN hcs : HcsRequestFailed(c) => hcs'[c].pc = "rejected"
       /\ \A c \in DOMAIN hts : HtsRequestFailed(c) => hts'[c].pc = "rejected"
       /\ ConnectCallFailed =>
               (calls'["connect"].pc = "done" /\ ~calls'["connect"].ok)
       /\ RequestTransactionCallFailed =>
               (calls'["requestTransaction"].pc = "done" /\ ~calls'["requestTransaction"].ok)
       /\ WcInitCallFailed => calls'["init"].adapterOk
       /\ \A got \in BOOLEAN : \A removed \in BOOLEAN :
             InitResumes(got, removed) =>
                 /\ calls'["init"].pc = "done"
                 /\ calls'["init"].ok = ~RestoreThrows(got, removed)
       /\ Cleanup => calls'["disconnect"].pc # "done"]_vars

\* a gateway query was rejected after its request ran out of retries, and
\* wallet.connect() was rejected after WalletConnectAdapter.init() had set
\* the provider and the provider's connect call failed
C22_Witness ==
    /\ \E c \in DOMAIN sdk :
          /\ sdk[c].op = "getGatewayHealth"
          /\ sdk[c].pc = "rejected"
          /\ req[sdk[c].request].pc = "rejected"
          /\ req[sdk[c].request].attempts = 2
    /\ wcProvider
    /\ calls["init"] = Settled(TRUE, TRUE)
    /\ calls["connect"] = Settled(FALSE, TRUE)

(***************************************************************************)
(* Security utilities: properties                                          *)
(***************************************************************************)

\* the key contains, ignoring case, one of the documented names
DocumentedSensitive(key) ==
    \E name \in DocumentedSensitiveKeys : Includes(ToLowerCase(key), ToLowerCase(name))

RECURSIVE RedactedAsDocumented(_, _)
\* out is obj with the value of every documented sensitive key replaced by
\* the marker, at every depth of nested objects, and nothing else changed
RedactedAsDocumented(obj, out) ==
    /\ DOMAIN out = DOMAIN obj
    /\ \A i \in DOMAIN obj :
          /\ out[i][1] = obj[i][1]
          /\ IF DocumentedSensitive(obj[i][1]) THEN out[i][2] = Redacted
             ELSE IF obj[i][2].t = "object"
                  THEN /\ out[i][2].t = "object"
                       /\ RedactedAsDocumented(obj[i][2].entries, out[i][2].entries)
                  ELSE out[i][2] = obj[i][2]

\* C15: redactSensitiveData replaces the value of every key that contains,
\* ignoring case, one of apiKey, privateKey, operatorKey, password, secret,
\* token, authorization, auth by the marker, at every depth, and leaves every
\* other key and value unchanged.
C15_RedactsDocumentedKeys ==
    redact.called => RedactedAsDocumented(redact.input, redact.output)

====
